---- MODULE Spec2Model ----
(***************************************************************************)
(* Flow accounting pipeline of the netobserv eBPF agent.                   *)
(*                                                                         *)
(*  - the TC classifier flow_monitor (bpf/flows.c), one instance per CPU,  *)
(*    upserting into the per-CPU hash map aggregated_flows and falling     *)
(*    back onto the ring buffer direct_flows;                              *)
(*  - the user-space MapTracer (timer loop, evictor goroutine, evictFlows, *)
(*    aggregate) reading and deleting the map;                             *)
(*  - the ring-buffer reader feeding the user-space Accounter;             *)
(*  - the deduper (flow/deduper.go), one record of a batch at a time;      *)
(*  - the interfaces manager of the agent and its registry of tracers.     *)
(*                                                                         *)
(* The classifier is split at its map-helper calls, the eviction at its    *)
(* system calls: those are the points where the other side can run.        *)
(***************************************************************************)
EXTENDS Integers, Sequences, FiniteSets, TLC

(***************************************************************************)
(* Bounds of the model.                                                    *)
(***************************************************************************)
\* the kernel clock runs from 1 to MaxTime; every packet that passes the
\* sampling gate reads (and so uses up) one timestamp
MaxTime == 3
\* packet lengths are 1..MaxLen
MaxLen == 2
\* bpf_get_prandom_u32() draws from 0..MaxRnd
MaxRnd == 1
\* max_entries of aggregated_flows (CACHE_MAX_FLOWS)
CacheMaxFlows == 1
\* records the ring buffer direct_flows can hold
RingCap == 1
\* capacity of the channel the evictions send their batches on
OutCap == 1
\* capacity of the channel from the ring-buffer reader to the Accounter
BuffersLength == 1
\* evict goroutines of the Accounter that may be pending at once
MaxEvicting == 1

(***************************************************************************)
(* Program constants.                                                      *)
(***************************************************************************)
\* the "sampling" constant of flows.c, as loaded by the agent
Sampling == 2
\* DEDUPER_FC_EXPIRY, in ticks of the clock
DeduperFCExpiry == 1
\* the records and the batches fed to Dedupe
MaxRecords == 2
MaxBatches == 2
\* the interface events the agent handles
MaxEvents == 4
\* the polls of the poller
MaxPolls == 3
\* the link updates the watcher handles
MaxUpdates == 3
MaxReadErrs == 2
\* the records of one flow fed to Dedupe, one to a batch
MaxFlowRecords == 4
\* the records the Trace goroutines send on tracedRecords
MaxTraced == 2
DISCARD == 1
SUBMIT == 0
ETH_P_IP == 2048
ETH_P_IPV6 == 34525
IPPROTO_TCP == 6
IPPROTO_UDP == 17
\* sizeof of the headers that the parser checks against data_end
SizeofEthhdr == 14
SizeofIphdr == 20
SizeofIpv6hdr == 40
SizeofTcphdr == 20
SizeofUdphdr == 8
E2BIG == 7
EBUSY == 16
EEXIST == 17
TC_ACT_OK == 0
TC_ACT_SHOT == 2
\* the verdict of the tcx entry points
TCX_NEXT == -1
\* TCP flag bits as flow_monitor stores them: SYN is bit 1, ACK is bit 4
SYN_FLAG == 2
ACK_FLAG == 16
FIN_FLAG == 1

CPUs == {1, 2}
Keys == {1, 2}
Lens == 1..MaxLen
PktFlagValues == {SYN_FLAG}
\* the flags of the packets of a TCP connection from its first to its last
TcpFlagValues == {SYN_FLAG, ACK_FLAG, FIN_FLAG}
\* the flags of the packets that end a connection
FinFlagValues == {ACK_FLAG, FIN_FLAG}
\* the interface indexes, MAC addresses and directions of the records fed to Dedupe,
\* and what is left of a flow id without them
IfIndexes == {1, 2}
Macs == {1, 2}
Directions == {0, 1}
Tuples == {1, 2}
\* the interface names: lo is what EXCLUDE_INTERFACES holds by default
Names == {"eth0", "br0", "lo"}
Elems == 1..CacheMaxFlows

\* bitwise OR over the two flag bits the model draws packets from
FlagBits(f) == {b \in {FIN_FLAG, SYN_FLAG, ACK_FLAG} : (f \div b) % 2 = 1}
SumBits(S) ==
    (IF FIN_FLAG \in S THEN FIN_FLAG ELSE 0) + (IF SYN_FLAG \in S THEN SYN_FLAG ELSE 0)
    + (IF ACK_FLAG \in S THEN ACK_FLAG ELSE 0)
BitOr(a, b) == SumBits(FlagBits(a) \cup FlagBits(b))

\* flow_metrics: the value of one CPU's slot of a map element
ZeroMetrics == [packets |-> 0, bytes |-> 0, start |-> 0, end |-> 0, flags |-> 0, errno |-> 0]
NoPkt == [key |-> 0, len |-> 0, ts |-> 0, flags |-> 0, errno |-> 0, path |-> "none", ret |-> TC_ACT_OK]

VARIABLES
    now,            \* the monotonic clock (bpf_ktime_get_ns, monotime.Now)
    zeroFill,       \* whether this kernel zero-fills the other CPUs' slots of a re-used element
    tcpFlags,       \* the flag values the packets on the wire carry
    tbl,            \* aggregated_flows: key -> element holding it (0: absent)
    elems,          \* the preallocated elements: element -> CPU -> flow_metrics
    pc,             \* per CPU: where flow_monitor stands
    pkt,            \* per CPU: the packet flow_monitor is processing
    ptr,            \* per CPU: the element bpf_map_lookup_elem returned
    do_sampling,    \* program global of flows.c
    dropped,        \* the HASHMAP_FLOWS_DROPPED counter
    ring,           \* direct_flows: the records submitted and not yet read
    stats,          \* bookkeeping: packets and bytes upserted into the map and not yet emitted
    settled,        \* bookkeeping: whether an eviction has run after the last packet
    cancelled,      \* whether the agent's context is done
    tpc,            \* where TraceLoop (the timer loop) stands
    epc,            \* where evictionSynchronization (the evictor goroutine) stands
    locked,         \* evictionCond.L
    lastEvictionNs, \* MapTracer.lastEvictionNs
    prevEvictionNs, \* bookkeeping: lastEvictionNs as the eviction in progress found it
    cur,            \* the key the map iterator returned last (0: none)
    flows,          \* the map lookupAndDeleteFlowsMap is filling: key -> per-CPU values read
    fwd,            \* forwardingFlows of the eviction in progress
    out,            \* the channel to the next pipeline stage: how many batches it holds
    rpc,            \* where the ring-buffer reader stands
    readFlow,       \* the record the ring-buffer reader holds
    flowAccount,    \* the channel from the ring-buffer reader to the Accounter
    entries,        \* Accounter.entries: key -> metrics (ZeroMetrics: absent)
    evicting,       \* the batches held by the evict goroutines the Accounter spawned
    running,        \* bookkeeping: the executions of evictFlows in progress
    atCancel,       \* bookkeeping: the keys in the map at cancellation and not sent since
    accOwed,        \* bookkeeping: per key, packets and bytes Account received and evict was not handed
    justMark,       \* Dedupe's justMark argument
    mergeDup,       \* Dedupe's mergeDup argument
    ifaces,         \* deduperCache: the entries of c.entries, front to back (c.ifaces indexes them by key)
    dpc,            \* where the Dedupe loop stands
    records,        \* the records of the batch Dedupe has not checked yet (pointers into heap)
    dfwd,           \* fwd of the batch in progress (pointers into heap)
    heap,           \* the Record objects: pointer -> record
    dout,           \* the records Dedupe forwarded in this pass, in order
    stream,         \* bookkeeping: the batches fed to Dedupe so far
    pass,           \* bookkeeping: 1 while fresh batches are fed, 2 when the stream is fed again
    first,          \* bookkeeping: what the first pass forwarded and how it left the records
    lastSeen,       \* bookkeeping: per flow, when Dedupe last checked a record of it (0: never)
    tracers,        \* Flows.tracers: the names registered
    traces,         \* per name: the Trace goroutines started whose cancel function was not called
    ipc,            \* where the goroutine of interfacesManager stands
    handled,        \* bookkeeping: the interface events handled, with their outcome
    current,        \* Poller: the names of the previous snapshot
    polled,         \* bookkeeping: what each poll's listing returned
    pevents,        \* the events the poller emitted, in order
    wpc,            \* where the watcher stands
    listed,         \* bookkeeping: the initial enumeration of the watcher
    wcurrent,       \* Watcher: the links it tracks
    wlinks,         \* bookkeeping: the link updates the watcher handled
    wch,            \* the channel from the watcher to the registerer
    wout,           \* the events the registerer forwarded, in order
    regIfaces,      \* Registerer.ifaces: index -> name ("": no entry)
    fpc,            \* where the FlowFetcher stands: open, or a step of Close
    enableEgress,   \* FlowFetcher.enableEgress
    enableIngress,  \* FlowFetcher.enableIngress
    egressFilters,  \* FlowFetcher.egressFilters: the interfaces that have one
    ingressFilters, \* FlowFetcher.ingressFilters: the interfaces that have one
    qdiscs,         \* FlowFetcher.qdiscs: the interfaces that have one
    errs,           \* errs of Close: the steps that failed
    attempts,       \* bookkeeping: the deletions Close attempted, with their results
    recorded,       \* bookkeeping: the registries as Close found them
    closeRet,       \* what Close returned ("none": it has not returned)
    rbClosed,       \* m.flows, the ring buffer reader, has been closed
    readErrs,       \* bookkeeping: the reads and decodings that failed so far
    frame,          \* bookkeeping: the frame each CPU parsed last
    idOf,           \* the flow_id that each key of the model stands for
    heard,          \* bookkeeping: when Dedupe last checked a record from each interface
    tstate,         \* per name: where the Trace goroutine of the interface stands
    traced,         \* the records sent on tracedRecords so far
    sentClosed,     \* a Trace goroutine has sent on tracedRecords after its close
    inClosed,       \* the input channel of Account has been closed
    apc,            \* where Account stands: run, final (in its last evict), done
    finalBatch      \* bookkeeping: the records of the last evict of Account

kvars == <<now, zeroFill, tcpFlags, tbl, elems, pc, pkt, ptr, do_sampling, dropped, ring>>
gvars == <<stats, settled>>
tvars == <<cancelled, tpc, epc, locked>>
evars == <<lastEvictionNs, prevEvictionNs, cur, flows, fwd>>
avars == <<rpc, readFlow, flowAccount, entries, evicting>>
hvars == <<running, atCancel>>
dvars == <<justMark, mergeDup, ifaces, dpc, records, dfwd, heap, dout, stream, pass, first, lastSeen>>
rvars == <<tracers, traces, ipc, handled>>
ivars == <<current, polled, pevents, wpc, listed, wcurrent, wlinks, wch, wout, regIfaces>>
fvars == <<fpc, enableEgress, enableIngress, egressFilters, ingressFilters, qdiscs, errs, attempts, recorded, closeRet>>
bvars == <<rbClosed, readErrs>>
pvars == <<frame, idOf>>
svars == <<heard>>
mvars == <<tstate, traced, sentClosed>>
cvars == <<inClosed, apc, finalBatch>>
qvars == <<mvars, cvars>>
uvars == <<svars, qvars>>
wvars == <<pvars, uvars>>
zvars == <<bvars, wvars>>
yvars == <<fvars, zvars>>
xvars == <<dvars, rvars, ivars, yvars>>
vars == <<kvars, gvars, tvars, evars, avars, out, hvars, accOwed, xvars>>

(***************************************************************************)
(* The classifier: flow_monitor of bpf/flows.c.                            *)
(***************************************************************************)
\* the verdict an entry point hands to the kernel, given flow_monitor's return
EntryVerdict(hook, r) == IF hook = "tc" THEN r ELSE TCX_NEXT
Hooks == {"tc", "tcx"}

\* a flow_monitor that drops the packet it could not report
ReturnShot(c, path, r) ==
    /\ pc' = [pc EXCEPT ![c] = "ret"]
    /\ pkt' = [pkt EXCEPT ![c] = [NoPkt EXCEPT !.path = path,
                   !.ret = IF path = "reserve_failed" THEN TC_ACT_SHOT ELSE r]]

\* flow_monitor returns r on CPU c along the path named: the program stands at
\* its return until FmExit
Return(c, path, r) ==
    /\ pc' = [pc EXCEPT ![c] = "ret"]
    /\ pkt' = [pkt EXCEPT ![c] = [NoPkt EXCEPT !.path = path, !.ret = r]]

\* an update_existing_flow that moves the start of the flow, not its end
update_flow_start(m, p) ==
    [m EXCEPT !.packets = m.packets + 1,
              !.bytes = m.bytes + p.len,
              !.start = p.ts,
              !.flags = BitOr(m.flags, p.flags)]

\* a hit path that counts the packet and not its bytes
update_flow_packets_only(m, p) ==
    [m EXCEPT !.packets = m.packets + 1,
              !.end = p.ts,
              !.flags = BitOr(m.flags, p.flags)]

\* a hit path that keeps the flags of the last packet only
update_flow_last_flags(m, p) ==
    [m EXCEPT !.packets = m.packets + 1,
              !.bytes = m.bytes + p.len,
              !.end = p.ts,
              !.flags = p.flags]

\* update_existing_flow
update_existing_flow(m, p) ==
    [m EXCEPT !.packets = m.packets + 1,
              !.bytes = m.bytes + p.len,
              !.end = p.ts,
              !.flags = BitOr(m.flags, p.flags)]

\* a hit path that leaves a start that was never set as it is
RepairStartNever(m, p) == m

\* the hit path of the per-CPU map: a slot whose start was never set gets the
\* timestamp of the packet
RepairStart(m, p) == IF m.start = 0 THEN [m EXCEPT !.start = p.ts] ELSE m

\* the flow_metrics new_flow built for a key that is not in the map
new_flow(p) ==
    [packets |-> 1, bytes |-> p.len, start |-> p.ts, end |-> p.ts,
     flags |-> p.flags, errno |-> 0]

\* a sampling gate that counts the packets it rejects as dropped
FmSampledOutCounted(c) ==
    /\ pc[c] = "idle"
    /\ \E rnd \in 0..MaxRnd : Sampling > 1 /\ rnd % Sampling # 0
    /\ do_sampling' = 0
    /\ dropped' = dropped + 1
    /\ Return(c, "sampled_out", TC_ACT_OK)
    /\ UNCHANGED <<now, zeroFill, tcpFlags, tbl, elems, ptr, ring, stats, settled, tvars, evars, avars, out, hvars>>
    /\ UNCHANGED <<accOwed, xvars>>

\* the sampling gate: rejected, nothing but do_sampling is written
FmSampledOut(c) ==
    /\ pc[c] = "idle"
    /\ \E rnd \in 0..MaxRnd : Sampling > 1 /\ rnd % Sampling # 0
    /\ do_sampling' = 0
    /\ Return(c, "sampled_out", TC_ACT_OK)
    /\ UNCHANGED <<now, zeroFill, tcpFlags, tbl, elems, ptr, dropped, ring, stats, settled, tvars, evars, avars, out, hvars>>
    /\ UNCHANGED <<accOwed, xvars>>

\* admitted by the gate: the timestamp is read first, then the headers are
\* parsed (fill_ethhdr) and the flow filter is asked
FmStart(c) ==
    /\ pc[c] = "idle"
    /\ now < MaxTime
    /\ \E rnd \in 0..MaxRnd : ~(Sampling > 1 /\ rnd % Sampling # 0)
    /\ do_sampling' = 1
    /\ now' = now + 1
    /\ \E parse \in {"DISCARD", "SUBMIT"}, skip \in BOOLEAN,
          k \in Keys, len \in Lens, fl \in tcpFlags :
          IF parse = "DISCARD"
          THEN /\ Return(c, "discard", TC_ACT_OK)
               /\ UNCHANGED settled
          ELSE IF skip
          THEN /\ Return(c, "filtered", TC_ACT_OK)
               /\ UNCHANGED settled
          ELSE /\ pkt' = [pkt EXCEPT ![c] = [key |-> k, len |-> len, ts |-> now,
                             flags |-> fl, errno |-> 0, path |-> "none", ret |-> TC_ACT_OK]]
               /\ pc' = [pc EXCEPT ![c] = "lookup"]
               /\ settled' = "dirty"
    /\ UNCHANGED <<zeroFill, tcpFlags, tbl, elems, ptr, dropped, ring, stats, tvars, evars, avars, out, hvars>>
    /\ UNCHANGED <<accOwed, xvars>>

\* bpf_map_lookup_elem(&aggregated_flows, &id)
FmLookup(c) ==
    /\ pc[c] = "lookup"
    /\ IF tbl[pkt[c].key] # 0
       THEN /\ ptr' = [ptr EXCEPT ![c] = tbl[pkt[c].key]]
            /\ pc' = [pc EXCEPT ![c] = "update"]
            /\ pkt' = [pkt EXCEPT ![c].path = "hit"]
       ELSE /\ pc' = [pc EXCEPT ![c] = "insert"]
            /\ UNCHANGED <<ptr, pkt>>
    /\ UNCHANGED <<now, zeroFill, tcpFlags, tbl, elems, do_sampling, dropped, ring, stats, settled, tvars, evars, avars, out, hvars>>
    /\ UNCHANGED <<accOwed, xvars>>

\* a hit path that, on a packet carrying FIN, takes the entry out of the map
\* and submits it to the ring buffer
FmUpdateFinEvicts(c) ==
    /\ pc[c] = "update"
    /\ elems' = [elems EXCEPT ![ptr[c]][c] = RepairStart(update_existing_flow(@, pkt[c]), pkt[c])]
    /\ IF FIN_FLAG \in FlagBits(pkt[c].flags)
       THEN /\ tbl' = [tbl EXCEPT ![pkt[c].key] = 0]
            /\ ring' = IF Len(ring) >= RingCap THEN ring
                       ELSE Append(ring, [id |-> pkt[c].key, metrics |-> elems'[ptr[c]][c]])
       ELSE UNCHANGED <<tbl, ring>>
    /\ stats' = [stats EXCEPT !.owedP = @ + 1, !.owedB = @ + pkt[c].len]
    /\ ptr' = [ptr EXCEPT ![c] = 0]
    /\ Return(c, pkt[c].path, TC_ACT_OK)
    /\ UNCHANGED <<now, zeroFill, tcpFlags, do_sampling, dropped, settled, tvars, evars, avars, out, hvars>>
    /\ UNCHANGED <<accOwed, xvars>>

\* the hit path: update_existing_flow on this CPU's slot of the element found
FmUpdate(c) ==
    /\ pc[c] = "update"
    /\ elems' = [elems EXCEPT ![ptr[c]][c] = RepairStart(update_existing_flow(@, pkt[c]), pkt[c])]
    /\ stats' = [stats EXCEPT !.owedP = @ + 1, !.owedB = @ + pkt[c].len]
    /\ ptr' = [ptr EXCEPT ![c] = 0]
    /\ Return(c, pkt[c].path, TC_ACT_OK)
    /\ UNCHANGED <<now, zeroFill, tcpFlags, tbl, do_sampling, dropped, ring, settled, tvars, evars, avars, out, hvars>>
    /\ UNCHANGED <<accOwed, xvars>>

\* what bpf_map_update_elem(..., BPF_NOEXIST) can return for key k
InsertResults(k) ==
    {-EBUSY} \cup
    (IF tbl[k] # 0 THEN {-EEXIST}
     ELSE IF \A e \in Elems : \E k2 \in Keys : tbl[k2] = e THEN {-E2BIG}
     ELSE {0})

FreeElems == {e \in Elems : \A k \in Keys : tbl[k] # e}

\* the value a re-used element holds after an insert from CPU c
InsertedValue(e, c, m) ==
    [c2 \in CPUs |-> IF c2 = c THEN m
                     ELSE IF zeroFill THEN ZeroMetrics ELSE elems[e][c2]]

\* the miss path: bpf_map_update_elem(&aggregated_flows, &id, &new_flow, BPF_NOEXIST)
FmInsert(c) ==
    /\ pc[c] = "insert"
    /\ \E r \in InsertResults(pkt[c].key) :
          IF r = 0
          THEN /\ \E e \in FreeElems :
                    /\ tbl' = [tbl EXCEPT ![pkt[c].key] = e]
                    /\ elems' = [elems EXCEPT ![e] = InsertedValue(e, c, new_flow(pkt[c]))]
               /\ stats' = [stats EXCEPT !.owedP = @ + 1, !.owedB = @ + pkt[c].len]
               /\ Return(c, "insert", TC_ACT_OK)
          ELSE IF r = -EEXIST
          THEN /\ pc' = [pc EXCEPT ![c] = "relookup"]
               /\ UNCHANGED <<tbl, elems, stats, pkt>>
          ELSE /\ pc' = [pc EXCEPT ![c] = "reserve"]
               /\ pkt' = [pkt EXCEPT ![c].errno = -r]
               /\ UNCHANGED <<tbl, elems, stats>>
    /\ UNCHANGED <<now, zeroFill, tcpFlags, ptr, do_sampling, dropped, ring, settled, tvars, evars, avars, out, hvars>>
    /\ UNCHANGED <<accOwed, xvars>>

\* a classifier that gives up on -EEXIST without looking the key up again
FmRelookupGivesUp(c) ==
    /\ pc[c] = "relookup"
    /\ Return(c, "eexist_dropped", TC_ACT_OK)
    /\ UNCHANGED <<now, zeroFill, tcpFlags, tbl, elems, ptr, do_sampling, dropped, ring, stats, settled,
                   tvars, evars, avars, out, hvars>>
    /\ UNCHANGED <<accOwed, xvars>>

\* after -EEXIST: the second bpf_map_lookup_elem
FmRelookup(c) ==
    /\ pc[c] = "relookup"
    /\ IF tbl[pkt[c].key] # 0
       THEN /\ ptr' = [ptr EXCEPT ![c] = tbl[pkt[c].key]]
            /\ pc' = [pc EXCEPT ![c] = "update"]
            /\ pkt' = [pkt EXCEPT ![c].path = "eexist"]
            /\ UNCHANGED <<dropped, stats>>
       ELSE /\ dropped' = dropped + 1
            /\ Return(c, "eexist_dropped", TC_ACT_OK)
            /\ UNCHANGED <<ptr, stats>>
    /\ UNCHANGED <<now, zeroFill, tcpFlags, tbl, elems, do_sampling, ring, settled, tvars, evars, avars, out, hvars>>
    /\ UNCHANGED <<accOwed, xvars>>

\* a record that does not carry the error of the insert
OverflowRecordNoErrno(c) ==
    [id |-> pkt[c].key, metrics |-> new_flow(pkt[c])]

\* the record written to the ring buffer for the packet of CPU c
OverflowRecord(c) ==
    [id |-> pkt[c].key,
     metrics |-> [new_flow(pkt[c]) EXCEPT !.errno = pkt[c].errno]]

\* after another error: bpf_ringbuf_reserve, and bpf_ringbuf_submit if it got space
FmReserve(c) ==
    /\ pc[c] = "reserve"
    /\ IF Len(ring) >= RingCap
       THEN /\ Return(c, "reserve_failed", TC_ACT_OK)
            /\ UNCHANGED ring
       ELSE /\ ring' = Append(ring, OverflowRecord(c))
            /\ Return(c, "overflow", TC_ACT_OK)
    /\ UNCHANGED <<now, zeroFill, tcpFlags, tbl, elems, ptr, do_sampling, dropped, stats, settled, tvars, evars, avars, out, hvars>>
    /\ UNCHANGED <<accOwed, xvars>>

\* the program has returned: the CPU is free for the next packet
FmExit(c) ==
    /\ pc[c] = "ret"
    /\ pc' = [pc EXCEPT ![c] = "idle"]
    /\ pkt' = [pkt EXCEPT ![c] = NoPkt]
    /\ UNCHANGED <<now, zeroFill, tcpFlags, tbl, elems, ptr, do_sampling, dropped, ring, stats, settled, tvars, evars, avars, out, hvars>>
    /\ UNCHANGED <<accOwed, xvars>>

Classifier ==
    \E c \in CPUs :
        \/ FmSampledOut(c)
        \/ FmStart(c)
        \/ FmLookup(c)
        \/ FmUpdate(c)
        \/ FmInsert(c)
        \/ FmRelookup(c)
        \/ FmReserve(c)
        \/ FmExit(c)

\* the maps, the counters and the program globals as the loader leaves them
KIdle ==
    /\ now = 1
    /\ zeroFill \in BOOLEAN
    /\ tbl = [k \in Keys |-> 0]
    /\ elems = [e \in Elems |-> [c \in CPUs |-> ZeroMetrics]]
    /\ pc = [c \in CPUs |-> "idle"]
    /\ pkt = [c \in CPUs |-> NoPkt]
    /\ ptr = [c \in CPUs |-> 0]
    /\ do_sampling = 0
    /\ dropped = 0
    /\ ring = <<>>
    /\ stats = [owedP |-> 0, owedB |-> 0]
    /\ settled = "clean"

\* the kernel side at start, the traffic being connection attempts
KInit == KIdle /\ tcpFlags = PktFlagValues

(***************************************************************************)
(* The map tracer: pkg/flow/account.go (MapTracer) reading the per-CPU map *)
(* the way lookupAndDeleteFlowsMap of pkg/ebpf/tracer.go does.             *)
(***************************************************************************)
Min(a, b) == IF a < b THEN a ELSE b
Max(a, b) == IF a > b THEN a ELSE b

\* Accumulate: packets and bytes are summed, start is the smallest non-zero
\* start, end the largest end, flags are or-ed
Accumulate(aggr, mt) ==
    [aggr EXCEPT !.packets = aggr.packets + mt.packets,
                 !.bytes = aggr.bytes + mt.bytes,
                 !.start = IF aggr.start = 0 THEN mt.start
                           ELSE IF mt.start = 0 THEN aggr.start
                           ELSE Min(aggr.start, mt.start),
                 !.end = Max(aggr.end, mt.end),
                 !.flags = BitOr(aggr.flags, mt.flags)]

\* a test that lets through a value written at the instant of the last eviction
DiscardedStrict(mt, last) == mt.start < last \/ mt.end < last

\* the test of aggregate that keeps a per-CPU value out of the record
Discarded(mt, last) == mt.start <= last \/ mt.end <= last

\* the loop of aggregate over metrics[i..], starting from aggr
RECURSIVE AggregateFrom(_, _, _, _)
AggregateFrom(metrics, i, aggr, last) ==
    IF i > Len(metrics) THEN aggr
    ELSE AggregateFrom(metrics, i + 1,
                       IF Discarded(metrics[i], last) THEN aggr
                       ELSE Accumulate(aggr, metrics[i]),
                       last)

\* MapTracer.aggregate
aggregate(metrics, last) ==
    IF Len(metrics) = 0 THEN ZeroMetrics
    ELSE AggregateFrom(metrics, 1, ZeroMetrics, last)

NewRecord(key, m) == [id |-> key, metrics |-> m]

NoFlows == [k \in Keys |-> <<>>]

\* the keys lookupAndDeleteFlowsMap returned
FlowKeys(fl) == {k \in Keys : Len(fl[k]) > 0}

\* forwardingFlows as the loop of evictFlows builds it
ForwardingFlows(fl, last) ==
    {NewRecord(k, aggregate(fl[k], last)) :
        k \in {k2 \in FlowKeys(fl) : aggregate(fl[k2], last).end # 0}}

RECURSIVE MaxEnd(_)
MaxEnd(recs) ==
    IF recs = {} THEN 0
    ELSE LET r == CHOOSE x \in recs : TRUE
         IN Max(r.metrics.end, MaxEnd(recs \ {r}))

\* laterFlowNs at the end of the loop of evictFlows
LaterFlowNs(fl, last) == MaxEnd(ForwardingFlows(fl, last))

RECURSIVE SumPackets(_)
SumPackets(recs) ==
    IF recs = {} THEN 0
    ELSE LET r == CHOOSE x \in recs : TRUE
         IN r.metrics.packets + SumPackets(recs \ {r})

RECURSIVE SumBytes(_)
SumBytes(recs) ==
    IF recs = {} THEN 0
    ELSE LET r == CHOOSE x \in recs : TRUE
         IN r.metrics.bytes + SumBytes(recs \ {r})

\* a Flush that runs the eviction in the goroutine of its caller
BroadcastEvicts ==
    /\ epc' = epc
    /\ running' = running + 1

\* evictionCond.Broadcast(): wakes the evictor if it is parked in Wait
Broadcast ==
    /\ epc' = IF epc = "waiting" THEN "woken" ELSE epc
    /\ UNCHANGED running

\* TraceLoop starts: the ticker is created, the evictor goroutine is spawned
TraceLoop ==
    /\ tpc = "start"
    /\ tpc' = "loop"
    /\ epc' = "lock"
    /\ UNCHANGED <<kvars, gvars, cancelled, locked, evars, avars, out, hvars>>
    /\ UNCHANGED <<accOwed, xvars>>

\* the timer loop takes a tick: Flush
TimerTick ==
    /\ tpc = "loop"
    /\ Broadcast
    /\ UNCHANGED <<kvars, gvars, cancelled, tpc, locked, evars, avars, out, atCancel>>
    /\ UNCHANGED <<accOwed, xvars>>

\* the timer loop takes ctx.Done(): the ticker is stopped, the loop returns
TimerExit ==
    /\ tpc = "loop"
    /\ cancelled
    /\ tpc' = "done"
    /\ UNCHANGED <<kvars, gvars, cancelled, epc, locked, evars, avars, out, hvars>>
    /\ UNCHANGED <<accOwed, xvars>>

\* the agent's context is cancelled
Cancel ==
    /\ ~cancelled
    /\ cancelled' = TRUE
    /\ atCancel' = {k \in Keys : tbl[k] # 0}
    /\ UNCHANGED <<kvars, gvars, tpc, epc, locked, evars, avars, out, running>>
    /\ UNCHANGED <<accOwed, xvars>>

\* evictionSynchronization: L.Lock(), and Wait() parks the goroutine releasing L
EsWait ==
    /\ epc = "lock"
    /\ ~locked
    /\ epc' = "waiting"
    /\ UNCHANGED <<kvars, gvars, cancelled, tpc, locked, evars, avars, out, hvars>>
    /\ UNCHANGED <<accOwed, xvars>>

\* an evictor that evicts once more when it wakes up with the context done
EsWakeEvicts ==
    /\ epc = "woken"
    /\ ~locked
    /\ locked' = TRUE
    /\ epc' = "iter"
    /\ running' = running + 1
    /\ flows' = NoFlows
    /\ cur' = 0
    /\ settled' = IF \A c \in CPUs : pc[c] \in {"idle", "ret"} THEN "evicting" ELSE settled
    /\ UNCHANGED <<kvars, stats, cancelled, tpc, lastEvictionNs, prevEvictionNs, fwd, avars, out, atCancel>>
    /\ UNCHANGED <<accOwed, xvars>>

\* the evictor wakes up holding L again and selects on ctx.Done(): it returns,
\* or evictFlows starts and creates the map iterator
EsWake ==
    /\ epc = "woken"
    /\ ~locked
    /\ locked' = TRUE
    /\ IF cancelled
       THEN /\ epc' = "done"
            /\ UNCHANGED <<settled, flows, cur, running>>
       ELSE /\ epc' = "iter"
            /\ running' = running + 1
            /\ flows' = NoFlows
            /\ cur' = 0
            /\ settled' = IF \A c \in CPUs : pc[c] \in {"idle", "ret"}
                          THEN "evicting" ELSE settled
    /\ UNCHANGED <<kvars, stats, cancelled, tpc, lastEvictionNs, prevEvictionNs, fwd, avars, out, atCancel>>
    /\ UNCHANGED <<accOwed, xvars>>

\* iterator.Next(&id, &metrics) returns a key of the map and its per-CPU values
EvNext ==
    /\ epc = "iter"
    /\ \E k \in Keys :
          /\ tbl[k] # 0
          /\ cur' = k
          /\ flows' = [flows EXCEPT ![k] = @ \o elems[tbl[k]]]
    /\ epc' = "delete"
    /\ UNCHANGED <<kvars, gvars, cancelled, tpc, locked, lastEvictionNs, prevEvictionNs, fwd, avars, out, hvars>>
    /\ UNCHANGED <<accOwed, xvars>>

\* flowMap.Delete(id): the element goes back to the free list, its values stay
EvDelete ==
    /\ epc = "delete"
    /\ tbl' = [tbl EXCEPT ![cur] = 0]
    /\ epc' = "iter"
    /\ UNCHANGED <<now, zeroFill, tcpFlags, elems, pc, pkt, ptr, do_sampling, dropped, ring>>
    /\ UNCHANGED <<gvars, cancelled, tpc, locked, evars, avars, out, hvars>>
    /\ UNCHANGED <<accOwed, xvars>>

\* iterator.Next returns false: the loop of evictFlows aggregates every key,
\* lastEvictionNs is set, and the select on ctx.Done() skips the send or not
EvAggregate ==
    /\ epc = "iter"
    /\ \A k \in Keys : tbl[k] = 0
    /\ lastEvictionNs' = LaterFlowNs(flows, lastEvictionNs)
    /\ cur' = 0
    /\ IF cancelled
       THEN /\ epc' = "lock"
            /\ locked' = FALSE
            /\ fwd' = {}
            /\ flows' = NoFlows
            /\ settled' = IF settled = "evicting" THEN "dirty" ELSE settled
            /\ running' = running - 1
            /\ UNCHANGED prevEvictionNs
       ELSE /\ epc' = "send"
            /\ fwd' = ForwardingFlows(flows, lastEvictionNs)
            /\ prevEvictionNs' = lastEvictionNs
            /\ UNCHANGED <<locked, flows, settled, running>>
    /\ UNCHANGED <<kvars, stats, cancelled, tpc, avars, out, atCancel>>
    /\ UNCHANGED <<accOwed, xvars>>

\* forwardFlows <- forwardingFlows, then evictFlows returns and L is unlocked
EvSend ==
    /\ epc = "send"
    /\ out < OutCap
    /\ out' = out + 1
    /\ stats' = [stats EXCEPT !.owedP = @ - SumPackets(fwd), !.owedB = @ - SumBytes(fwd)]
    /\ settled' = IF settled = "evicting" THEN "clean" ELSE settled
    /\ fwd' = {}
    /\ flows' = NoFlows
    /\ epc' = "lock"
    /\ locked' = FALSE
    /\ prevEvictionNs' = 0
    /\ running' = running - 1
    /\ atCancel' = atCancel \ {r.id : r \in fwd}
    /\ UNCHANGED <<kvars, cancelled, tpc, lastEvictionNs, cur, avars>>
    /\ UNCHANGED <<accOwed, xvars>>

\* the next pipeline stage receives a batch
Consume ==
    /\ out > 0
    /\ out' = out - 1
    /\ UNCHANGED <<kvars, gvars, tvars, evars, avars, hvars>>
    /\ UNCHANGED <<accOwed, xvars>>

NoRecord == [id |-> 0, metrics |-> ZeroMetrics]

(***************************************************************************)
(* The ring-buffer reader (listenAndForwardRingBuffer of tracer.go) and    *)
(* the Accounter of account.go.                                            *)
(***************************************************************************)
\* m.flows.Read() returns a record: the eviction is signalled
RbRead ==
    /\ rpc = "read"
    /\ ring # <<>>
    /\ readFlow' = Head(ring)
    /\ ring' = Tail(ring)
    /\ Broadcast
    /\ rpc' = "send"
    /\ UNCHANGED <<now, zeroFill, tcpFlags, tbl, elems, pc, pkt, ptr, do_sampling, dropped>>
    /\ UNCHANGED <<gvars, cancelled, tpc, locked, evars, flowAccount, entries, evicting, out, atCancel>>
    /\ UNCHANGED <<accOwed, xvars>>

\* flowAccount <- readFlow
RbForward ==
    /\ rpc = "send"
    /\ Len(flowAccount) < BuffersLength
    /\ flowAccount' = Append(flowAccount, readFlow)
    /\ readFlow' = NoRecord
    /\ rpc' = "read"
    /\ UNCHANGED <<kvars, gvars, tvars, evars, entries, evicting, out, hvars>>
    /\ UNCHANGED <<accOwed, xvars>>

\* the reader finds the context done, or the ring buffer closed
RbExit ==
    /\ rpc = "read"
    /\ cancelled
    /\ rpc' = "done"
    /\ UNCHANGED <<kvars, gvars, tvars, evars, readFlow, flowAccount, entries, evicting, out, hvars>>
    /\ UNCHANGED <<accOwed, xvars>>

EntryKeys == {k \in Keys : entries[k] # ZeroMetrics}
NoEntries == [k \in Keys |-> ZeroMetrics]

\* the records that evict builds from the entries handed to it
EvictRecords(en) == {NewRecord(k, en[k]) : k \in {k2 \in Keys : en[k2] # ZeroMetrics}}

\* what is still owed when a record has come in and the entries en went to evict
Received(ow, record, en) ==
    [k \in Keys |->
        [packets |-> ow[k].packets - en[k].packets
                        + (IF k = record.id THEN record.metrics.packets ELSE 0),
         bytes |-> ow[k].bytes - en[k].bytes
                        + (IF k = record.id THEN record.metrics.bytes ELSE 0)]]

\* an Account that stores a new key without looking at the size of the map
AccountNoEvict ==
    /\ Len(flowAccount) > 0
    /\ LET record == Head(flowAccount) IN
          /\ entries' = [entries EXCEPT ![record.id] = record.metrics]
          /\ accOwed' = Received(accOwed, record, NoEntries)
    /\ flowAccount' = Tail(flowAccount)
    /\ UNCHANGED <<kvars, gvars, tvars, evars, rpc, readFlow, evicting, out, hvars>>
    /\ UNCHANGED xvars

\* Account receives a record: a stored key is accumulated into the copy the
\* map lookup returned, a new key is stored, after evicting when the map is full
Account ==
    /\ apc = "run"
    /\ Len(flowAccount) > 0
    /\ LET record == Head(flowAccount) IN
          IF entries[record.id] # ZeroMetrics
          THEN /\ UNCHANGED <<entries, evicting>>
               /\ accOwed' = Received(accOwed, record, NoEntries)
          ELSE IF Cardinality(EntryKeys) >= CacheMaxFlows
          THEN /\ Len(evicting) < MaxEvicting
               /\ evicting' = Append(evicting, EvictRecords(entries))
               /\ entries' = [NoEntries EXCEPT ![record.id] = record.metrics]
               /\ accOwed' = Received(accOwed, record, entries)
          ELSE /\ entries' = [entries EXCEPT ![record.id] = record.metrics]
               /\ accOwed' = Received(accOwed, record, NoEntries)
               /\ UNCHANGED evicting
    /\ flowAccount' = Tail(flowAccount)
    /\ UNCHANGED <<kvars, gvars, tvars, evars, rpc, readFlow, out, hvars>>
    /\ UNCHANGED xvars

\* Account takes a tick of evictTick
AccountTick ==
    /\ apc = "run"
    /\ Len(evicting) < MaxEvicting
    /\ evicting' = Append(evicting, EvictRecords(entries))
    /\ entries' = NoEntries
    /\ accOwed' = Received(accOwed, NoRecord, entries)
    /\ UNCHANGED <<kvars, gvars, tvars, evars, rpc, readFlow, flowAccount, out, hvars>>
    /\ UNCHANGED xvars

\* an evict goroutine sends its records: evictor <- records
EvictSend ==
    /\ Len(evicting) > 0
    /\ out < OutCap
    /\ evicting' = Tail(evicting)
    /\ out' = out + 1
    /\ UNCHANGED <<kvars, gvars, tvars, evars, rpc, readFlow, flowAccount, entries, hvars>>
    /\ UNCHANGED <<accOwed, xvars>>

(***************************************************************************)
(* The deduper: Dedupe, checkDupe and removeExpired of flow/deduper.go.    *)
(***************************************************************************)
FlowIds == [IfIndex : IfIndexes, SrcMac : Macs, DstMac : Macs, Direction : Directions,
            Tuple : Tuples]

\* the name of the interface a record comes from
Interface(id) == IF id.IfIndex = 1 THEN "eth0" ELSE "br0"

\* a key that keeps the MAC addresses
NormKeyKeepsMac(id) == [id EXCEPT !.IfIndex = 0, !.Direction = 0]

\* rk: the key with the fields zeroed that the comparison of flows ignores
NormKey(id) == [id EXCEPT !.IfIndex = 0, !.SrcMac = 0, !.DstMac = 0, !.Direction = 0]

\* c.ifaces[rk]: the position of the key's entry in the list (0: absent)
Find(es, rk) == IF \E i \in 1..Len(es) : es[i].key = rk
                THEN CHOOSE i \in 1..Len(es) : es[i].key = rk
                ELSE 0

Without(es, i) == SubSeq(es, 1, i - 1) \o SubSeq(es, i + 1, Len(es))

RECURSIVE removeExpiredEarly(_, _)
\* a removal that also takes the entries that expire now
removeExpiredEarly(es, t) ==
    IF es # <<>> /\ t >= es[Len(es)].expiryTime
    THEN removeExpiredEarly(SubSeq(es, 1, Len(es) - 1), t)
    ELSE es

\* a cache that forgets nothing
removeExpiredNever(es, t) == es

RECURSIVE removeExpired(_, _)
\* the entries left when the expired ones are removed from the back
removeExpired(es, t) ==
    IF es # <<>> /\ t > es[Len(es)].expiryTime
    THEN removeExpired(SubSeq(es, 1, Len(es) - 1), t)
    ELSE es

\* a Record as the previous stage builds it
FreshRecord(id) == [Id |-> id, Duplicate |-> FALSE, DupList |-> <<>>]

\* the clock advances
DdTick ==
    /\ now < MaxTime
    /\ now' = now + 1
    /\ UNCHANGED <<zeroFill, tcpFlags, tbl, elems, pc, pkt, ptr, do_sampling, dropped, ring>>
    /\ UNCHANGED <<gvars, tvars, evars, avars, out, hvars, accOwed, dvars, rvars, ivars, yvars>>

\* for records := range in: a batch of new records arrives, the expired entries go
DdReceive ==
    /\ dpc = "recv"
    /\ pass = 1
    /\ Len(stream) < MaxBatches
    /\ \E n \in 0..(MaxRecords - Len(heap)) : \E ids \in [1..n -> FlowIds] :
          /\ heap' = heap \o [i \in 1..n |-> FreshRecord(ids[i])]
          /\ records' = [i \in 1..n |-> Len(heap) + i]
          /\ stream' = Append(stream, [i \in 1..n |-> Len(heap) + i])
    /\ ifaces' = removeExpired(ifaces, now)
    /\ dfwd' = <<>>
    /\ dpc' = "check"
    /\ UNCHANGED <<kvars, gvars, tvars, evars, avars, out, hvars, accOwed, rvars, ivars, yvars>>
    /\ UNCHANGED <<justMark, mergeDup, dout, pass, first, lastSeen>>

\* the batches fed so far arrive once more, the same records in the same order
DdReceiveAgain ==
    /\ dpc = "recv"
    /\ stream # <<>>
    /\ IF pass = 1
       THEN /\ pass' = 2
            /\ first' = [dout |-> dout, heap |-> heap]
            /\ dout' = <<>>
       ELSE UNCHANGED <<pass, first, dout>>
    /\ records' = Head(stream)
    /\ stream' = Tail(stream)
    /\ ifaces' = removeExpired(ifaces, now)
    /\ dfwd' = <<>>
    /\ dpc' = "check"
    /\ UNCHANGED <<kvars, gvars, tvars, evars, avars, out, hvars, accOwed, rvars, ivars, yvars>>
    /\ UNCHANGED <<justMark, mergeDup, heap, lastSeen>>

\* mergeEntry[r.Interface] = r.Id.Direction
mergeEntry(r) == <<Interface(r.Id), r.Id.Direction>>

\* a comparison that finds every record to come from the first interface
isDupeNever(fEntry, r) == FALSE

\* the record comes from another interface than the one registered first
isDupe(fEntry, r) == fEntry.ifIndex # r.Id.IfIndex

\* a mark that leaves the record as it is
MarkNone(h, p) == h

\* r.Duplicate = true, for the record p points to
Mark(h, p) == [h EXCEPT ![p].Duplicate = TRUE]

\* a merge that appends the entry twice
MergeTwice(h, q, r) == [h EXCEPT ![q].DupList = Append(Append(@, mergeEntry(r)), mergeEntry(r))]

\* the merge entry of r appended to the DupList of the record q points to
Merge(h, q, r) == [h EXCEPT ![q].DupList = Append(@, mergeEntry(r))]

\* checkDupe on the next record of the batch
DdCheck ==
    /\ dpc = "check"
    /\ records # <<>>
    /\ LET p == Head(records)
           r == heap[p]
           rk == NormKey(r.Id)
           i == Find(ifaces, rk)
       IN  IF i # 0
           THEN LET fEntry == [ifaces[i] EXCEPT !.expiryTime = now + DeduperFCExpiry]
                    marked == IF justMark THEN Mark(heap, p) ELSE heap
                IN  /\ ifaces' = <<fEntry>> \o Without(ifaces, i)
                    /\ IF isDupe(fEntry, r)
                       THEN /\ dfwd' = IF justMark THEN Append(dfwd, p) ELSE dfwd
                            /\ heap' = IF mergeDup THEN Merge(marked, fEntry.dupList, r)
                                       ELSE marked
                       ELSE /\ dfwd' = Append(dfwd, p)
                            /\ UNCHANGED heap
           ELSE /\ ifaces' = <<[key |-> rk, ifIndex |-> r.Id.IfIndex,
                                expiryTime |-> now + DeduperFCExpiry,
                                dupList |-> IF mergeDup THEN p ELSE 0]>> \o ifaces
                /\ heap' = IF mergeDup THEN Merge(heap, p, r) ELSE heap
                /\ dfwd' = Append(dfwd, p)
    /\ lastSeen' = [lastSeen EXCEPT ![heap[Head(records)].Id.Tuple] = now]
    /\ records' = Tail(records)
    /\ UNCHANGED <<kvars, gvars, tvars, evars, avars, out, hvars, accOwed, rvars, ivars, yvars>>
    /\ UNCHANGED <<justMark, mergeDup, dpc, dout, stream, pass, first>>

\* the batch is checked: out <- fwd, unless nothing is left to forward
DdForward ==
    /\ dpc = "check"
    /\ records = <<>>
    /\ dout' = dout \o dfwd
    /\ dfwd' = <<>>
    /\ dpc' = "recv"
    /\ UNCHANGED <<kvars, gvars, tvars, evars, avars, out, hvars, accOwed, rvars, ivars, yvars>>
    /\ UNCHANGED <<justMark, mergeDup, ifaces, records, heap, stream, pass, first, lastSeen>>

(***************************************************************************)
(* The interfaces manager of the agent: onInterfaceAdded,                  *)
(* onInterfaceDeleted and detachAllTracers.                                *)
(***************************************************************************)
\* f.filter.Allowed(name), with the default exclusion list
Allowed(name) == name # "lo"

\* a registry that never finds a name
IsRegisteredNever(tr, name) == FALSE

\* _, ok := f.tracers[name]
IsRegistered(tr, name) == name \in tr

\* an Added event that stores the tracer although Register() failed
OnInterfaceAddedStoresFailed ==
    /\ ipc = "run"
    /\ Len(handled) < MaxEvents
    /\ \E name \in Names, registers \in BOOLEAN :
          /\ handled' = Append(handled, [type |-> "Added", name |-> name, registers |-> registers])
          /\ IF Allowed(name) /\ ~IsRegistered(tracers, name)
             THEN /\ traces' = [traces EXCEPT ![name] = @ + 1]
                  /\ tracers' = tracers \cup {name}
             ELSE UNCHANGED <<tracers, traces>>
    /\ UNCHANGED <<kvars, gvars, tvars, evars, avars, out, hvars, accOwed, dvars, ivars, yvars, ipc>>

\* an Added event: registers is whether tracer.Register() would succeed
OnInterfaceAdded ==
    /\ ipc = "run"
    /\ Len(handled) < MaxEvents
    /\ \E name \in Names, registers \in BOOLEAN :
          /\ handled' = Append(handled, [type |-> "Added", name |-> name, registers |-> registers])
          /\ IF Allowed(name) /\ ~IsRegistered(tracers, name) /\ registers
             THEN /\ traces' = [traces EXCEPT ![name] = @ + 1]
                  /\ tracers' = tracers \cup {name}
             ELSE UNCHANGED <<tracers, traces>>
    /\ UNCHANGED <<kvars, gvars, tvars, evars, avars, out, hvars, accOwed, dvars, ivars, yvars, ipc>>

\* a Deleted event
OnInterfaceDeleted ==
    /\ ipc = "run"
    /\ Len(handled) < MaxEvents
    /\ \E name \in Names :
          /\ handled' = Append(handled, [type |-> "Deleted", name |-> name, registers |-> FALSE])
          /\ IF IsRegistered(tracers, name)
             THEN /\ traces' = [traces EXCEPT ![name] = @ - 1]
                  /\ tracers' = tracers \ {name}
             ELSE UNCHANGED <<tracers, traces>>
    /\ UNCHANGED <<kvars, gvars, tvars, evars, avars, out, hvars, accOwed, dvars, ivars, yvars, ipc>>

\* the context is done: every tracer is cancelled and the goroutine returns
DetachAllTracers ==
    /\ ipc = "run"
    /\ cancelled
    /\ traces' = [n \in Names |-> IF n \in tracers THEN traces[n] - 1 ELSE traces[n]]
    /\ tracers' = {}
    /\ ipc' = "done"
    /\ UNCHANGED <<kvars, gvars, tvars, evars, avars, out, hvars, accOwed, dvars, ivars, yvars, handled>>

\* the agent's userspace after construction
UInit ==
    /\ cancelled = FALSE
    /\ tpc = "start"
    /\ epc = "off"
    /\ locked = FALSE
    /\ lastEvictionNs = 0
    /\ prevEvictionNs = 0
    /\ cur = 0
    /\ flows = NoFlows
    /\ fwd = {}
    /\ out = 0
    /\ rpc = "read"
    /\ readFlow = NoRecord
    /\ flowAccount = <<>>
    /\ entries = NoEntries
    /\ evicting = <<>>
    /\ running = 0
    /\ atCancel = {}
    /\ accOwed = [k \in Keys |-> [packets |-> 0, bytes |-> 0]]

\* ---------------------------------------------------------------------
\* The informers: the poller and the watcher with its registerer
\* ---------------------------------------------------------------------

\* the names the listing of a poll can return
PollNames == {"foo", "bar", "bae"}

\* the elements of a sequence
Range(s) == {s[i] : i \in 1..Len(s)}

\* the orders in which the elements of a set can be visited
Orderings(S) == {s \in [1..Cardinality(S) -> S] : Range(s) = S}

\* what a listing can return: some of the names, each once, in some order
Listings == UNION {Orderings(S) : S \in SUBSET PollNames}

\* a poller that reports every listed name as new
RECURSIVE AddedEventsAll(_, _)
AddedEventsAll(names, snapshot) ==
    IF names = <<>> THEN <<>>
    ELSE <<[type |-> "Added", name |-> Head(names)]>> \o AddedEventsAll(Tail(names), snapshot)

\* the listed names that the previous snapshot lacks, in the order listed
RECURSIVE AddedEvents(_, _)
AddedEvents(names, snapshot) ==
    IF names = <<>> THEN <<>>
    ELSE (IF Head(names) \in snapshot THEN <<>> ELSE <<[type |-> "Added", name |-> Head(names)]>>)
         \o AddedEvents(Tail(names), snapshot \cup {Head(names)})

\* one Deleted event for each name of a sequence
DeletedEvents(gone) == [i \in 1..Len(gone) |-> [type |-> "Deleted", name |-> gone[i]]]

\* one poll: the listing is compared with the previous snapshot, the events
\* are emitted and the listing becomes the snapshot
Poll ==
    /\ Len(polled) < MaxPolls
    /\ \E names \in Listings :
          \E gone \in Orderings(current \ Range(names)) :
             /\ polled' = Append(polled, names)
             /\ pevents' = pevents \o AddedEvents(names, current) \o DeletedEvents(gone)
             /\ current' = (current \cup Range(names)) \ Range(gone)
    /\ UNCHANGED <<kvars, gvars, tvars, evars, avars, out, hvars, accOwed, dvars, rvars, yvars>>
    /\ UNCHANGED <<wpc, listed, wcurrent, wlinks, wch, wout, regIfaces>>

\* the links of the host: a name and an index; fiu takes the index foo had
Links == {<<"foo", 1>>, <<"bar", 2>>, <<"baz", 3>>, <<"bae", 4>>, <<"fiu", 1>>}

\* the indexes of the links
LinkIndexes == {l[2] : l \in Links}

\* the links that can exist when the watcher starts, in the order listed
Extant == <<<<"foo", 1>>, <<"bar", 2>>, <<"baz", 3>>>>

\* what the initial enumeration can return
Enumerations == {SelectSeq(Extant, LAMBDA l : l \in S) : S \in SUBSET Range(Extant)}

\* the events of the initial enumeration
EnumeratedEvents(links) == [i \in 1..Len(links) |-> [type |-> "Added", link |-> links[i]]]

\* the watcher starts: every interface of the initial enumeration is tracked
\* and announced
WatchStart ==
    /\ wpc = "init"
    /\ \E links \in Enumerations :
          /\ listed' = links
          /\ wcurrent' = Range(links)
          /\ wch' = wch \o EnumeratedEvents(links)
    /\ wpc' = "run"
    /\ UNCHANGED <<kvars, gvars, tvars, evars, avars, out, hvars, accOwed, dvars, rvars, yvars>>
    /\ UNCHANGED <<current, polled, pevents, wlinks, wout, regIfaces>>

\* a link update: up is whether the link is up and running
WatchUpdate ==
    /\ wpc = "run"
    /\ Len(wlinks) < MaxUpdates
    /\ \E link \in Links, up \in BOOLEAN :
          /\ wlinks' = Append(wlinks, [link |-> link, up |-> up])
          /\ IF up
             THEN IF link \notin wcurrent
                  THEN /\ wcurrent' = wcurrent \cup {link}
                       /\ wch' = Append(wch, [type |-> "Added", link |-> link])
                  ELSE UNCHANGED <<wcurrent, wch>>
             ELSE IF link \in wcurrent
                  THEN /\ wcurrent' = wcurrent \ {link}
                       /\ wch' = Append(wch, [type |-> "Deleted", link |-> link])
                  ELSE UNCHANGED <<wcurrent, wch>>
    /\ UNCHANGED <<kvars, gvars, tvars, evars, avars, out, hvars, accOwed, dvars, rvars, yvars>>
    /\ UNCHANGED <<current, polled, pevents, wpc, listed, wout, regIfaces>>

\* a registerer that forgets an index whatever name it holds
UnregisterAnyName(reg, link) == [reg EXCEPT ![link[2]] = ""]

\* the registerer on Added
Register(reg, link) == [reg EXCEPT ![link[2]] = link[1]]

\* the registerer on Deleted: the entry goes when it holds the deleted name
Unregister(reg, link) ==
    IF reg[link[2]] = link[1] THEN [reg EXCEPT ![link[2]] = ""] ELSE reg

\* the registerer takes an event of the watcher, updates its map and forwards
\* the event
RegisterEvent ==
    /\ wch # <<>>
    /\ regIfaces' = IF Head(wch).type = "Added"
                    THEN Register(regIfaces, Head(wch).link)
                    ELSE Unregister(regIfaces, Head(wch).link)
    /\ wout' = Append(wout, Head(wch))
    /\ wch' = Tail(wch)
    /\ UNCHANGED <<kvars, gvars, tvars, evars, avars, out, hvars, accOwed, dvars, rvars, yvars>>
    /\ UNCHANGED <<current, polled, pevents, wpc, listed, wcurrent, wlinks>>

\* the informers before their first listing
IIdle ==
    /\ current = {}
    /\ polled = <<>>
    /\ pevents = <<>>
    /\ wpc = "init"
    /\ listed = <<>>
    /\ wcurrent = {}
    /\ wlinks = <<>>
    /\ wch = <<>>
    /\ wout = <<>>
    /\ regIfaces = [i \in LinkIndexes |-> ""]

\* ---------------------------------------------------------------------
\* The FlowFetcher: registration of interfaces and Close
\* ---------------------------------------------------------------------

\* the interfaces a FlowFetcher is asked to register
FetcherIfaces == {"eth0", "br0"}

\* what Close closes before it deletes filters and qdiscs
CloseNames == {"ringbufReader", "EgressFlowParse", "IngressFlowParse", "AggregatedFlows", "DirectFlows"}

\* what netlink.FilterDel and netlink.QdiscDel can return
DelResults == {"nil", "ENODEV", "EPERM"}

\* Register: fails is the step that fails ("none": every step succeeds)
FfRegister ==
    /\ fpc = "open"
    /\ \E iface \in FetcherIfaces, fails \in {"link", "qdisc", "egress", "ingress", "none"} :
          /\ qdiscs' = IF fails \in {"link", "qdisc"} THEN qdiscs ELSE qdiscs \cup {iface}
          /\ egressFilters' = IF fails \in {"link", "qdisc", "egress"} \/ ~enableEgress
                              THEN egressFilters ELSE egressFilters \cup {iface}
          /\ ingressFilters' = IF fails \in {"link", "qdisc", "ingress"} \/ ~enableIngress
                                  \/ (fails = "egress" /\ enableEgress)
                               THEN ingressFilters ELSE ingressFilters \cup {iface}
    /\ UNCHANGED <<kvars, gvars, tvars, evars, avars, out, hvars, accOwed, dvars, rvars, ivars, zvars>>
    /\ UNCHANGED <<fpc, enableEgress, enableIngress, errs, attempts, recorded, closeRet>>

\* a doIgnoreNoDev that ignores nothing
doIgnoreNothing(err) == err

\* doIgnoreNoDev: the error of the system call, unless it is ENODEV
doIgnoreNoDev(err) == IF err = "ENODEV" THEN "nil" ELSE err

\* the errors a loop of Close appends: one for each deletion that
\* doIgnoreNoDev returns an error for
LoopErrors(kind, res) ==
    {[step |-> kind, iface |-> i] : i \in {j \in DOMAIN res : doIgnoreNoDev(res[j]) # "nil"}}

\* the deletions a loop of Close makes
LoopAttempts(kind, res) == {[step |-> kind, iface |-> i, result |-> res[i]] : i \in DOMAIN res}

\* Close begins: the trace points, the ring buffer reader and the objects are
\* closed, each failure is appended to errs
FfCloseObjects ==
    /\ fpc = "open"
    /\ recorded' = [egress |-> egressFilters, ingress |-> ingressFilters, qdiscs |-> qdiscs]
    /\ \E failed \in SUBSET CloseNames :
          errs' = errs \cup {[step |-> n, iface |-> ""] : n \in failed}
    /\ fpc' = "egress"
    /\ UNCHANGED <<kvars, gvars, tvars, evars, avars, out, hvars, accOwed, dvars, rvars, ivars, zvars>>
    /\ UNCHANGED <<enableEgress, enableIngress, egressFilters, ingressFilters, qdiscs, attempts, closeRet>>

\* the loop over egressFilters, and the map is replaced by an empty one
FfDeleteEgress ==
    /\ fpc = "egress"
    /\ \E res \in [egressFilters -> DelResults] :
          /\ errs' = errs \cup LoopErrors("egress", res)
          /\ attempts' = attempts \cup LoopAttempts("egress", res)
    /\ egressFilters' = {}
    /\ fpc' = "ingress"
    /\ UNCHANGED <<kvars, gvars, tvars, evars, avars, out, hvars, accOwed, dvars, rvars, ivars, zvars>>
    /\ UNCHANGED <<enableEgress, enableIngress, ingressFilters, qdiscs, recorded, closeRet>>

\* the loop over ingressFilters, and the map is replaced by an empty one
FfDeleteIngress ==
    /\ fpc = "ingress"
    /\ \E res \in [ingressFilters -> DelResults] :
          /\ errs' = errs \cup LoopErrors("ingress", res)
          /\ attempts' = attempts \cup LoopAttempts("ingress", res)
    /\ ingressFilters' = {}
    /\ fpc' = "qdiscs"
    /\ UNCHANGED <<kvars, gvars, tvars, evars, avars, out, hvars, accOwed, dvars, rvars, ivars, zvars>>
    /\ UNCHANGED <<enableEgress, enableIngress, egressFilters, qdiscs, recorded, closeRet>>

\* the loop over qdiscs, the map is replaced by an empty one and Close returns
\* nil if errs is empty, an error made of errs otherwise
FfDeleteQdiscs ==
    /\ fpc = "qdiscs"
    /\ \E res \in [qdiscs -> DelResults] :
          /\ errs' = errs \cup LoopErrors("qdisc", res)
          /\ attempts' = attempts \cup LoopAttempts("qdisc", res)
    /\ qdiscs' = {}
    /\ closeRet' = IF errs' = {} THEN "nil" ELSE "errors"
    /\ fpc' = "closed"
    /\ UNCHANGED <<kvars, gvars, tvars, evars, avars, out, hvars, accOwed, dvars, rvars, ivars, zvars>>
    /\ UNCHANGED <<enableEgress, enableIngress, egressFilters, ingressFilters, recorded>>

\* the FlowFetcher as NewFlowFetcher returns it
FIdle ==
    /\ fpc = "open"
    /\ enableEgress = TRUE
    /\ enableIngress = TRUE
    /\ egressFilters = {}
    /\ ingressFilters = {}
    /\ qdiscs = {}
    /\ errs = {}
    /\ attempts = {}
    /\ recorded = [egress |-> {}, ingress |-> {}, qdiscs |-> {}]
    /\ closeRet = "none"

\* ---------------------------------------------------------------------
\* The ring buffer reader seen step by step: the select on the context,
\* the blocking Read and what it returns, and the Close of the reader by
\* the goroutine that waits for the context
\* ---------------------------------------------------------------------

\* the select of the loop finds the context not done and takes its default
\* branch: m.flows.Read() is called
RbSelect ==
    /\ rpc = "read"
    /\ ~cancelled
    /\ rpc' = "reading"
    /\ UNCHANGED <<kvars, gvars, tvars, evars, readFlow, flowAccount, entries, evicting, out, hvars>>
    /\ UNCHANGED <<accOwed, xvars>>

\* Read returns a record that ReadFrom decodes: the eviction is signalled and
\* the record is about to be sent to the accounter
RbReadRecord ==
    /\ rpc = "reading"
    /\ ~rbClosed
    /\ ring # <<>>
    /\ readFlow' = Head(ring)
    /\ ring' = Tail(ring)
    /\ Broadcast
    /\ rpc' = "send"
    /\ UNCHANGED <<now, zeroFill, tcpFlags, tbl, elems, pc, pkt, ptr, do_sampling, dropped>>
    /\ UNCHANGED <<gvars, cancelled, tpc, locked, evars, flowAccount, entries, evicting, out, atCancel>>
    /\ UNCHANGED <<accOwed, xvars>>

\* a reader that gives up at the first error
RbReadFailsExits ==
    /\ rpc = "reading"
    /\ ~rbClosed
    /\ readErrs < MaxReadErrs
    /\ readErrs' = readErrs + 1
    /\ rpc' = "done"
    /\ UNCHANGED <<kvars, gvars, tvars, evars, readFlow, flowAccount, entries, evicting, out, hvars>>
    /\ UNCHANGED <<accOwed, dvars, rvars, ivars, fvars, rbClosed, wvars>>

\* Read returns an error that is not ErrClosed: a warning, and continue
RbReadFails ==
    /\ rpc = "reading"
    /\ ~rbClosed
    /\ readErrs < MaxReadErrs
    /\ readErrs' = readErrs + 1
    /\ rpc' = "read"
    /\ UNCHANGED <<kvars, gvars, tvars, evars, readFlow, flowAccount, entries, evicting, out, hvars>>
    /\ UNCHANGED <<accOwed, dvars, rvars, ivars, fvars, rbClosed, wvars>>

\* Read returns a record that ReadFrom cannot decode: a warning, and continue;
\* the record has left the ring buffer
RbDecodeFails ==
    /\ rpc = "reading"
    /\ ~rbClosed
    /\ ring # <<>>
    /\ readErrs < MaxReadErrs
    /\ ring' = Tail(ring)
    /\ readErrs' = readErrs + 1
    /\ rpc' = "read"
    /\ UNCHANGED <<now, zeroFill, tcpFlags, tbl, elems, pc, pkt, ptr, do_sampling, dropped>>
    /\ UNCHANGED <<gvars, tvars, evars, readFlow, flowAccount, entries, evicting, out, hvars>>
    /\ UNCHANGED <<accOwed, dvars, rvars, ivars, fvars, rbClosed, wvars>>

\* Read returns ErrClosed: the loop returns
RbReadClosed ==
    /\ rpc = "reading"
    /\ rbClosed
    /\ rpc' = "done"
    /\ UNCHANGED <<kvars, gvars, tvars, evars, readFlow, flowAccount, entries, evicting, out, hvars>>
    /\ UNCHANGED <<accOwed, xvars>>

\* the goroutine of Trace that waits for <-ctx.Done(): stopAndUnregister
\* closes the ring buffer reader
StopAndUnregister ==
    /\ cancelled
    /\ ~rbClosed
    /\ rbClosed' = TRUE
    /\ UNCHANGED <<kvars, gvars, tvars, evars, avars, out, hvars>>
    /\ UNCHANGED <<accOwed, dvars, rvars, ivars, fvars, readErrs, wvars>>

\* the reader before Trace starts it
BIdle ==
    /\ rbClosed = FALSE
    /\ readErrs = 0

\* ---------------------------------------------------------------------
\* The header parser: fill_ethhdr, fill_iphdr and fill_ip6hdr, and the
\* classifier run on frames
\* ---------------------------------------------------------------------

\* the frames of the model as <<bytes between data and data_end, ethertype,
\* protocol>>: for each header one frame that ends a byte before the end of
\* the header, and one that holds it
FrameShapes ==
    {<<SizeofEthhdr - 1, ETH_P_IP, IPPROTO_TCP>>,
     <<SizeofEthhdr, ETH_P_IP + 6, 1>>,
     <<SizeofEthhdr + SizeofIphdr - 1, ETH_P_IP, IPPROTO_TCP>>,
     <<SizeofEthhdr + SizeofIphdr, ETH_P_IP, 1>>,
     <<SizeofEthhdr + SizeofIphdr + SizeofUdphdr - 1, ETH_P_IP, IPPROTO_UDP>>,
     <<SizeofEthhdr + SizeofIphdr + SizeofUdphdr, ETH_P_IP, IPPROTO_UDP>>,
     <<SizeofEthhdr + SizeofIphdr + SizeofTcphdr - 1, ETH_P_IP, IPPROTO_TCP>>,
     <<SizeofEthhdr + SizeofIphdr + SizeofTcphdr, ETH_P_IP, IPPROTO_TCP>>,
     <<SizeofEthhdr + SizeofIpv6hdr - 1, ETH_P_IPV6, IPPROTO_TCP>>,
     <<SizeofEthhdr + SizeofIpv6hdr + SizeofTcphdr - 1, ETH_P_IPV6, IPPROTO_TCP>>,
     <<SizeofEthhdr + SizeofIpv6hdr + SizeofTcphdr, ETH_P_IPV6, IPPROTO_TCP>>}

\* a 16-bit field as its two bytes in the order of the wire
Wire16(n) == <<n \div 256, n % 256>>

\* the frames that reach the hook: the ethertype is IPv4, IPv6 or ARP, the
\* protocol TCP, UDP or ICMP; the addresses are those of TestRecordBinaryEncoding
Frames ==
    {[caplen |-> sh[1], h_dest |-> <<10, 11, 12, 13, 14, 15>>, h_source |-> <<4, 5, 6, 7, 8, 9>>,
      h_proto |-> Wire16(sh[2]), protocol |-> sh[3],
      saddr |-> IF sh[2] = ETH_P_IPV6 THEN <<32, 1, 13, 184, 0, 0, 0, 0, 0, 0, 0, 0, 0, 0, 0, 1>>
                ELSE <<6, 7, 8, 9>>,
      daddr |-> IF sh[2] = ETH_P_IPV6 THEN <<32, 1, 13, 184, 0, 0, 0, 0, 0, 0, 0, 0, 0, 0, 0, 2>>
                ELSE <<10, 11, 12, 13>>,
      source |-> <<14, 15>>, dest |-> <<16, 17>>] : sh \in FrameShapes}

NoFrame == [caplen |-> 0, h_dest |-> <<>>, h_source |-> <<>>, h_proto |-> <<0, 0>>, protocol |-> 0,
            saddr |-> <<>>, daddr |-> <<>>, source |-> <<0, 0>>, dest |-> <<0, 0>>]

\* memset(&(id->src_ip), 0, sizeof(struct in6_addr))
ZeroAddr == [i \in 1..16 |-> 0]

\* flow_id id, zeroed
NoId == [dst_mac |-> <<>>, src_mac |-> <<>>, eth_protocol |-> 0, src_ip |-> ZeroAddr, dst_ip |-> ZeroAddr,
         transport_protocol |-> 0, src_port |-> 0, dst_port |-> 0]

\* a prefix of twelve zero bytes
ip4in6_zeroes == <<0, 0, 0, 0, 0, 0, 0, 0, 0, 0, 0, 0>>

\* const u8 ip4in6[]
ip4in6 == <<0, 0, 0, 0, 0, 0, 0, 0, 0, 0, 255, 255>>

\* __bpf_ntohs: the value of two bytes in network order
bpf_ntohs(b) == b[1] * 256 + b[2]

\* the switch on the protocol: the ports are read if the TCP or UDP header,
\* which starts l4 bytes into the frame, ends within the frame
fill_ports(f, l4, id) ==
    IF \/ (f.protocol = IPPROTO_TCP /\ l4 + SizeofTcphdr <= f.caplen)
       \/ (f.protocol = IPPROTO_UDP /\ l4 + SizeofUdphdr <= f.caplen)
    THEN [id EXCEPT !.src_port = bpf_ntohs(f.source), !.dst_port = bpf_ntohs(f.dest)]
    ELSE [id EXCEPT !.src_port = 0, !.dst_port = 0]

\* a fill_iphdr that does not look at data_end
fill_iphdr_unchecked(f, id) ==
    [ret |-> SUBMIT,
     id |-> fill_ports(f, SizeofEthhdr + SizeofIphdr,
               [id EXCEPT !.src_ip = ip4in6 \o f.saddr, !.dst_ip = ip4in6 \o f.daddr,
                          !.transport_protocol = f.protocol])]

fill_iphdr(f, id) ==
    IF SizeofEthhdr + SizeofIphdr > f.caplen
    THEN [ret |-> DISCARD, id |-> id]
    ELSE [ret |-> SUBMIT,
          id |-> fill_ports(f, SizeofEthhdr + SizeofIphdr,
                    [id EXCEPT !.src_ip = ip4in6 \o f.saddr, !.dst_ip = ip4in6 \o f.daddr,
                               !.transport_protocol = f.protocol])]

fill_ip6hdr(f, id) ==
    IF SizeofEthhdr + SizeofIpv6hdr > f.caplen
    THEN [ret |-> DISCARD, id |-> id]
    ELSE [ret |-> SUBMIT,
          id |-> fill_ports(f, SizeofEthhdr + SizeofIpv6hdr,
                    [id EXCEPT !.src_ip = f.saddr, !.dst_ip = f.daddr,
                               !.transport_protocol = f.protocol])]

fill_ethhdr(f) ==
    IF SizeofEthhdr > f.caplen
    THEN [ret |-> DISCARD, id |-> NoId]
    ELSE LET id == [NoId EXCEPT !.dst_mac = f.h_dest, !.src_mac = f.h_source,
                                !.eth_protocol = bpf_ntohs(f.h_proto)]
         IN  IF id.eth_protocol = ETH_P_IP THEN fill_iphdr(f, id)
             ELSE IF id.eth_protocol = ETH_P_IPV6 THEN fill_ip6hdr(f, id)
             ELSE [ret |-> SUBMIT,
                   id |-> [id EXCEPT !.src_ip = ZeroAddr, !.dst_ip = ZeroAddr,
                                     !.transport_protocol = 0, !.src_port = 0, !.dst_port = 0]]

\* IPAddr.IP().String() of a record read back: the four bytes of the
\* dotted-quad if the address is an IPv4 address mapped in IPv6, none otherwise
To4(ip) ==
    IF Len(ip) = 16 /\ SubSeq(ip, 1, 10) = [i \in 1..10 |-> 0] /\ ip[11] = 255 /\ ip[12] = 255
    THEN SubSeq(ip, 13, 16)
    ELSE <<>>

\* flow_monitor from the sampling gate to the lookup, on a frame: the key of
\* the model that the packet gets is the one that stands for its flow_id, or a
\* key that stands for none yet
FmParse(c) ==
    /\ pc[c] = "idle"
    /\ now < MaxTime
    /\ \E rnd \in 0..MaxRnd : ~(Sampling > 1 /\ rnd % Sampling # 0)
    /\ do_sampling' = 1
    /\ now' = now + 1
    /\ \E f \in Frames, skip \in BOOLEAN, len \in Lens, fl \in tcpFlags :
          LET r == fill_ethhdr(f) IN
          /\ frame' = [frame EXCEPT ![c] = f]
          /\ IF r.ret = DISCARD
             THEN /\ Return(c, "discard", TC_ACT_OK)
                  /\ UNCHANGED <<settled, idOf>>
             ELSE IF skip
             THEN /\ Return(c, "filtered", TC_ACT_OK)
                  /\ UNCHANGED <<settled, idOf>>
             ELSE \E k \in Keys :
                     /\ \/ idOf[k] = r.id
                        \/ idOf[k] = NoId /\ \A k2 \in Keys : idOf[k2] # r.id
                     /\ idOf' = [idOf EXCEPT ![k] = r.id]
                     /\ pkt' = [pkt EXCEPT ![c] = [key |-> k, len |-> len, ts |-> now,
                                   flags |-> fl, errno |-> 0, path |-> "none", ret |-> TC_ACT_OK]]
                     /\ pc' = [pc EXCEPT ![c] = "lookup"]
                     /\ settled' = "dirty"
    /\ UNCHANGED <<zeroFill, tcpFlags, tbl, elems, ptr, dropped, ring, stats, tvars, evars, avars, out, hvars>>
    /\ UNCHANGED <<accOwed, dvars, rvars, ivars, fvars, bvars, uvars>>

\* no frame has been parsed
PIdle ==
    /\ frame = [c \in CPUs |-> NoFrame]
    /\ idOf = [k \in Keys |-> NoId]

\* ---------------------------------------------------------------------
\* Dedupe fed with one flow, seen through two interfaces
\* ---------------------------------------------------------------------

\* the flow as the interface ifx reports it
FlowFrom(ifx) == [IfIndex |-> ifx, SrcMac |-> ifx, DstMac |-> 1, Direction |-> 0, Tuple |-> 1]

\* one turn of the loop of Dedupe on a batch that holds one record of the flow,
\* from the interface ifx: removeExpired, checkDupe, and out <- fwd if the
\* record is forwarded
DdSingle ==
    /\ dpc = "recv"
    /\ Len(heap) < MaxFlowRecords
    /\ \E ifx \in IfIndexes :
          LET p == Len(heap) + 1
              r == FreshRecord(FlowFrom(ifx))
              h == Append(heap, r)
              rk == NormKey(r.Id)
              es == removeExpired(ifaces, now)
              i == Find(es, rk)
          IN  /\ IF i # 0
                 THEN LET fEntry == [es[i] EXCEPT !.expiryTime = now + DeduperFCExpiry]
                          marked == IF justMark THEN Mark(h, p) ELSE h
                      IN  /\ ifaces' = <<fEntry>> \o Without(es, i)
                          /\ IF isDupe(fEntry, r)
                             THEN /\ dout' = IF justMark THEN Append(dout, p) ELSE dout
                                  /\ heap' = IF mergeDup THEN Merge(marked, fEntry.dupList, r)
                                             ELSE marked
                             ELSE /\ dout' = Append(dout, p)
                                  /\ heap' = h
                 ELSE /\ ifaces' = <<[key |-> rk, ifIndex |-> ifx,
                                      expiryTime |-> now + DeduperFCExpiry,
                                      dupList |-> IF mergeDup THEN p ELSE 0]>> \o es
                      /\ heap' = IF mergeDup THEN Merge(h, p, r) ELSE h
                      /\ dout' = Append(dout, p)
              /\ heard' = [heard EXCEPT ![ifx] = now]
    /\ lastSeen' = [lastSeen EXCEPT ![1] = now]
    /\ UNCHANGED <<kvars, gvars, tvars, evars, avars, out, hvars, accOwed, rvars, ivars, fvars, bvars, pvars, qvars>>
    /\ UNCHANGED <<justMark, mergeDup, dpc, records, dfwd, stream, pass, first>>

\* Dedupe has heard from no interface
SIdle == heard = [x \in IfIndexes |-> 0]

\* ---------------------------------------------------------------------
\* The Trace goroutines that onInterfaceAdded starts, and the channel
\* tracedRecords that interfacesManager closes
\* ---------------------------------------------------------------------

\* go tracer.Trace(tctx, flowsCh): the goroutine of the interface begins to run
TrStart(n) ==
    /\ tstate[n] = "none"
    /\ traces[n] > 0
    /\ tstate' = [tstate EXCEPT ![n] = "loop"]
    /\ UNCHANGED <<kvars, gvars, tvars, evars, avars, out, hvars, accOwed, dvars, rvars, ivars>>
    /\ UNCHANGED <<fvars, bvars, pvars, svars, traced, sentClosed, cvars>>

\* Trace finds its context not done and reads a record: it is about to send it
TrRead(n) ==
    /\ tstate[n] = "loop"
    /\ traces[n] > 0
    /\ traced < MaxTraced
    /\ tstate' = [tstate EXCEPT ![n] = "send"]
    /\ UNCHANGED <<kvars, gvars, tvars, evars, avars, out, hvars, accOwed, dvars, rvars, ivars>>
    /\ UNCHANGED <<fvars, bvars, pvars, svars, traced, sentClosed, cvars>>

\* Trace finds its context done: it returns
TrReturn(n) ==
    /\ tstate[n] = "loop"
    /\ traces[n] = 0
    /\ tstate' = [tstate EXCEPT ![n] = "none"]
    /\ UNCHANGED <<kvars, gvars, tvars, evars, avars, out, hvars, accOwed, dvars, rvars, ivars>>
    /\ UNCHANGED <<fvars, bvars, pvars, svars, traced, sentClosed, cvars>>

\* forwardFlows <- record: on tracedRecords, which the goroutine of
\* interfacesManager has closed when it is done; a send on a closed channel
\* panics
TrSend(n) ==
    /\ tstate[n] = "send"
    /\ IF ipc = "done"
       THEN /\ sentClosed' = TRUE
            /\ tstate' = [tstate EXCEPT ![n] = "none"]
            /\ UNCHANGED traced
       ELSE /\ traced' = traced + 1
            /\ tstate' = [tstate EXCEPT ![n] = "loop"]
            /\ UNCHANGED sentClosed
    /\ UNCHANGED <<kvars, gvars, tvars, evars, avars, out, hvars, accOwed, dvars, rvars, ivars>>
    /\ UNCHANGED <<fvars, bvars, pvars, svars, cvars>>

\* no Trace goroutine runs, tracedRecords is open
MIdle ==
    /\ tstate = [n \in Names |-> "none"]
    /\ traced = 0
    /\ sentClosed = FALSE

\* ---------------------------------------------------------------------
\* Account when its input channel is closed
\* ---------------------------------------------------------------------

\* the stage that feeds Account has stopped: the input channel is closed
InClose ==
    /\ rpc = "done"
    /\ ~inClosed
    /\ inClosed' = TRUE
    /\ UNCHANGED <<kvars, gvars, tvars, evars, avars, out, hvars, accOwed, dvars, rvars, ivars>>
    /\ UNCHANGED <<fvars, bvars, pvars, svars, mvars, apc, finalBatch>>

\* an Account that hands its last entries to a new evict goroutine and returns
AccountClosedAsync ==
    /\ apc = "run"
    /\ inClosed
    /\ flowAccount = <<>>
    /\ Len(evicting) < MaxEvicting
    /\ evicting' = Append(evicting, EvictRecords(entries))
    /\ finalBatch' = EvictRecords(entries)
    /\ apc' = "done"
    /\ UNCHANGED <<kvars, gvars, tvars, evars, rpc, readFlow, flowAccount, entries, out, hvars>>
    /\ UNCHANGED <<accOwed, dvars, rvars, ivars, fvars, bvars, pvars, svars, mvars, inClosed>>

\* record, ok := <-in with ok false: evict(c.entries, out) is called in the
\* goroutine of Account and builds its records
AccountClosed ==
    /\ apc = "run"
    /\ inClosed
    /\ flowAccount = <<>>
    /\ finalBatch' = EvictRecords(entries)
    /\ apc' = "final"
    /\ UNCHANGED <<kvars, gvars, tvars, evars, avars, out, hvars>>
    /\ UNCHANGED <<accOwed, dvars, rvars, ivars, fvars, bvars, pvars, svars, mvars, inClosed>>

\* evictor <- records in that evict, and Account returns
AccountFinalSend ==
    /\ apc = "final"
    /\ out < OutCap
    /\ out' = out + 1
    /\ apc' = "done"
    /\ UNCHANGED <<kvars, gvars, tvars, evars, avars, hvars>>
    /\ UNCHANGED <<accOwed, dvars, rvars, ivars, fvars, bvars, pvars, svars, mvars, inClosed, finalBatch>>

\* Account runs, its input channel is open
CIdle ==
    /\ inClosed = FALSE
    /\ apc = "run"
    /\ finalBatch = {}

\* the components that the agent has constructed and not started
YIdle == FIdle /\ BIdle /\ PIdle /\ SIdle /\ MIdle /\ CIdle

\* Dedupe before its first batch, with the configuration's defaults
DIdle ==
    /\ justMark = FALSE
    /\ mergeDup = FALSE
    /\ ifaces = <<>>
    /\ dpc = "recv"
    /\ records = <<>>
    /\ dfwd = <<>>
    /\ heap = <<>>
    /\ dout = <<>>
    /\ stream = <<>>
    /\ pass = 1
    /\ first = [dout |-> <<>>, heap |-> <<>>]
    /\ lastSeen = [t \in Tuples |-> 0]

\* the agent before its first interface event
RIdle ==
    /\ tracers = {}
    /\ traces = [n \in Names |-> 0]
    /\ ipc = "run"
    /\ handled = <<>>

Init == KInit /\ UInit /\ DIdle /\ RIdle /\ IIdle /\ YIdle

\* the state the first packet leaves when it is the last one before the agent
\* stops: inserted from some CPU (r = 0), or sent to the ring buffer (r = -EBUSY)
SyncInit ==
    /\ UInit
    /\ DIdle
    /\ RIdle
    /\ IIdle
    /\ YIdle
    /\ \E c \in CPUs, len \in Lens, r \in {0, -EBUSY} :
          LET p == [NoPkt EXCEPT !.key = 1, !.len = len, !.ts = 1, !.flags = SYN_FLAG]
          IN  /\ tbl = [k \in Keys |-> IF r = 0 /\ k = 1 THEN 1 ELSE 0]
              /\ elems = [e \in Elems |-> [c2 \in CPUs |->
                            IF r = 0 /\ e = 1 /\ c2 = c THEN new_flow(p) ELSE ZeroMetrics]]
              /\ ring = IF r = 0 THEN <<>>
                        ELSE <<[id |-> 1, metrics |-> [new_flow(p) EXCEPT !.errno = -r]]>>
              /\ stats = IF r = 0 THEN [owedP |-> 1, owedB |-> len]
                         ELSE [owedP |-> 0, owedB |-> 0]
    /\ now = 2
    /\ zeroFill \in BOOLEAN
    /\ tcpFlags = PktFlagValues
    /\ pc = [c \in CPUs |-> "idle"]
    /\ pkt = [c \in CPUs |-> NoPkt]
    /\ ptr = [c \in CPUs |-> 0]
    /\ do_sampling = 1
    /\ dropped = 0
    /\ settled = "dirty"

MapTracer ==
    \/ TraceLoop
    \/ TimerTick
    \/ EsWait
    \/ EsWake
    \/ EvNext
    \/ EvDelete
    \/ EvAggregate
    \/ EvSend

RingReader ==
    \/ RbRead
    \/ RbForward

Accounter ==
    \/ Account
    \/ AccountTick
    \/ EvictSend

\* the classifier under load and the map tracer evicting its map
Tracing ==
    \/ Classifier
    \/ MapTracer
    \/ Consume

\* the agent's userspace, running and being stopped, with no traffic arriving
Next ==
    \/ MapTracer
    \/ RingReader
    \/ Accounter
    \/ Consume
    \/ Cancel
    \/ TimerExit
    \/ RbExit

\* the classifier sending records to the ring buffer, its reader and the Accounter
Accounting ==
    \/ Classifier
    \/ RingReader
    \/ Accounter
    \/ Consume

\* Dedupe fed with batches of new records as time goes by
Deduping ==
    \/ DdTick
    \/ DdReceive
    \/ DdCheck
    \/ DdForward

\* Dedupe fed with a stream of batches and then with the same stream again
Refeeding ==
    \/ Deduping
    \/ DdReceiveAgain

\* the interfaces manager handling events until the agent stops
Registering ==
    \/ OnInterfaceAdded
    \/ OnInterfaceDeleted
    \/ Cancel
    \/ DetachAllTracers

\* the whole agent
All ==
    \/ Classifier
    \/ Next

Spec == Init /\ [][Tracing]_vars

SyncSpec == SyncInit /\ [][Next]_vars

AllSpec == Init /\ [][All]_vars

AccountSpec == Init /\ [][Accounting]_vars

\* Dedupe as the agent's configuration can set it up
DedupeInit ==
    /\ KInit
    /\ zeroFill
    /\ UInit
    /\ RIdle
    /\ IIdle
    /\ YIdle
    /\ justMark \in BOOLEAN
    /\ mergeDup \in BOOLEAN
    /\ ifaces = <<>>
    /\ dpc = "recv"
    /\ records = <<>>
    /\ dfwd = <<>>
    /\ heap = <<>>
    /\ dout = <<>>
    /\ stream = <<>>
    /\ pass = 1
    /\ first = [dout |-> <<>>, heap |-> <<>>]
    /\ lastSeen = [t \in Tuples |-> 0]

DedupeSpec == DedupeInit /\ [][Deduping]_vars

RefeedSpec == DedupeInit /\ [][Refeeding]_vars

RegisterInit == KInit /\ zeroFill /\ UInit /\ DIdle /\ RIdle /\ IIdle /\ YIdle

RegisterSpec == RegisterInit /\ [][Registering]_vars

\* the per-CPU values aggregate is given for one key: two shards whose start
\* may never have been set
Shards ==
    [packets : {2, 3}, bytes : {1, 2}, start : {0, 900}, end : {1000, 1100},
     flags : {SYN_FLAG}, errno : {0}]

\* evictFlows with the map read and emptied, about to aggregate the two
\* shards of key 1
AggregateInit ==
    /\ KInit
    /\ zeroFill
    /\ DIdle
    /\ RIdle
    /\ IIdle
    /\ YIdle
    /\ cancelled = FALSE
    /\ tpc = "loop"
    /\ epc = "iter"
    /\ locked = TRUE
    /\ lastEvictionNs \in {0, 899}
    /\ prevEvictionNs = 0
    /\ cur = 0
    /\ \E a \in Shards, b \in Shards : flows = [k \in Keys |-> IF k = 1 THEN <<a, b>> ELSE <<>>]
    /\ fwd = {}
    /\ out = 0
    /\ rpc = "read"
    /\ readFlow = NoRecord
    /\ flowAccount = <<>>
    /\ entries = NoEntries
    /\ evicting = <<>>
    /\ running = 1
    /\ atCancel = {}
    /\ accOwed = [k \in Keys |-> [packets |-> 0, bytes |-> 0]]

Aggregating ==
    \/ EvAggregate
    \/ EvSend
    \/ Consume

AggregateSpec == AggregateInit /\ [][Aggregating]_vars

\* the classifier under the traffic of whole connections
ClassifyInit ==
    /\ KIdle
    /\ zeroFill
    /\ tcpFlags = TcpFlagValues
    /\ UInit
    /\ DIdle
    /\ RIdle
    /\ IIdle
    /\ YIdle

ClassifySpec == ClassifyInit /\ [][Classifier]_vars

\* the classifier and the map tracer under the traffic of connections that
\* are being closed
TcpInit ==
    /\ KIdle
    /\ zeroFill
    /\ tcpFlags = FinFlagValues
    /\ UInit
    /\ DIdle
    /\ RIdle
    /\ IIdle
    /\ YIdle

TcpSpec == TcpInit /\ [][Tracing]_vars

\* a FlowFetcher with either direction enabled or not
FetchInit ==
    /\ KInit
    /\ zeroFill
    /\ UInit
    /\ DIdle
    /\ RIdle
    /\ IIdle
    /\ fpc = "open"
    /\ enableEgress \in BOOLEAN
    /\ enableIngress \in BOOLEAN
    /\ egressFilters = {}
    /\ ingressFilters = {}
    /\ qdiscs = {}
    /\ errs = {}
    /\ attempts = {}
    /\ recorded = [egress |-> {}, ingress |-> {}, qdiscs |-> {}]
    /\ closeRet = "none"
    /\ BIdle
    /\ PIdle
    /\ SIdle
    /\ MIdle
    /\ CIdle

Fetching ==
    \/ FfRegister
    \/ FfCloseObjects
    \/ FfDeleteEgress
    \/ FfDeleteIngress
    \/ FfDeleteQdiscs

FetchSpec == FetchInit /\ [][Fetching]_vars

\* the records that wait in the ring buffer when the reader starts
RingLoads ==
    LET r(k) == [id |-> k, metrics |-> new_flow([NoPkt EXCEPT !.key = k, !.len = 1, !.ts = 1, !.flags = SYN_FLAG])]
    IN  {<<>>, <<r(1)>>, <<r(1), r(2)>>, <<r(2), r(1), r(2)>>}

\* the reader of the ring buffer and its accounter, started by Trace
ReadInit ==
    /\ now = 1
    /\ zeroFill = TRUE
    /\ tcpFlags = PktFlagValues
    /\ tbl = [k \in Keys |-> 0]
    /\ elems = [e \in Elems |-> [c \in CPUs |-> ZeroMetrics]]
    /\ pc = [c \in CPUs |-> "idle"]
    /\ pkt = [c \in CPUs |-> NoPkt]
    /\ ptr = [c \in CPUs |-> 0]
    /\ do_sampling = 0
    /\ dropped = 0
    /\ ring \in RingLoads
    /\ stats = [owedP |-> 0, owedB |-> 0]
    /\ settled = "clean"
    /\ UInit
    /\ DIdle
    /\ RIdle
    /\ IIdle
    /\ YIdle

Reading ==
    \/ RbSelect
    \/ RbReadRecord
    \/ RbReadFails
    \/ RbDecodeFails
    \/ RbReadClosed
    \/ RbExit
    \/ RbForward
    \/ Cancel
    \/ StopAndUnregister
    \/ Accounter
    \/ Consume

\* every goroutine that can take a step takes one in the end: the reader, the
\* goroutine that closes it, the accounter, its evict goroutines and the
\* consumer of the out channel; the ticker and the cancellation need not come
ReadFairness ==
    /\ WF_vars(RbSelect)
    /\ WF_vars(RbReadRecord \/ RbReadFails \/ RbDecodeFails \/ RbReadClosed)
    /\ WF_vars(RbExit)
    /\ WF_vars(RbForward)
    /\ WF_vars(StopAndUnregister)
    /\ WF_vars(Account)
    /\ WF_vars(EvictSend)
    /\ WF_vars(Consume)

ReadSpec == ReadInit /\ [][Reading]_vars /\ ReadFairness

\* the classifier on frames
Parsing ==
    \E c \in CPUs :
        \/ FmSampledOut(c)
        \/ FmParse(c)
        \/ FmLookup(c)
        \/ FmUpdate(c)
        \/ FmInsert(c)
        \/ FmRelookup(c)
        \/ FmReserve(c)
        \/ FmExit(c)

ParseInit == KInit /\ zeroFill /\ UInit /\ DIdle /\ RIdle /\ IIdle /\ YIdle

ParseSpec == ParseInit /\ [][Parsing]_vars

\* Dedupe fed with the records of one flow as time goes by
Hearing ==
    \/ DdTick
    \/ DdSingle

HearSpec == DedupeInit /\ [][Hearing]_vars

\* the interfaces manager and the Trace goroutines it starts
Detaching ==
    \/ Registering
    \/ \E n \in Names :
          \/ TrStart(n)
          \/ TrRead(n)
          \/ TrReturn(n)
          \/ TrSend(n)

DetachSpec == RegisterInit /\ [][Detaching]_vars

\* the reader feeds Account until the context is cancelled, then the input
\* channel of Account is closed
Closing ==
    \/ RingReader
    \/ Cancel
    \/ RbExit
    \/ InClose
    \/ Accounter
    \/ AccountClosed
    \/ AccountFinalSend
    \/ Consume

CloseSpec == ReadInit /\ [][Closing]_vars

\* the informers as the agent starts them
InformInit == KInit /\ zeroFill /\ UInit /\ DIdle /\ RIdle /\ IIdle /\ YIdle

PollSpec == InformInit /\ [][Poll]_vars

Watching ==
    \/ WatchStart
    \/ WatchUpdate
    \/ RegisterEvent

WatchSpec == InformInit /\ [][Watching]_vars

(***************************************************************************)
(* Properties.                                                             *)
(***************************************************************************)
\* C1: aggregation is lossless: once an eviction has run after the last
\* packet, the packets and bytes of the emitted records add up to the packets
\* and bytes that were upserted into the map
C1_AggregationLossless ==
    settled = "clean" => stats.owedP = 0 /\ stats.owedB = 0

\* C2: at most one execution of evictFlows is in progress at any time, and it
\* holds evictionCond.L, whatever the interleaving of timer ticks, signals of
\* the ring-buffer reader and cancellation
C2_OneEvictionAtATime ==
    /\ running <= 1
    /\ running = 1 => locked /\ epc \in {"iter", "delete", "send"}

\* an eviction in progress after the ring-buffer reader signalled and the
\* context was cancelled, the timer loop still running
C2_Witness ==
    running = 1 /\ epc = "send" /\ rpc = "send" /\ cancelled /\ tpc = "loop"

GoroutineStep ==
    \/ MapTracer
    \/ TimerExit
    \/ RingReader
    \/ RbExit
    \/ Account
    \/ EvictSend
    \/ Consume

\* C4: after cancellation the timer loop and the evictor goroutine exit: when
\* no goroutine can take a step any more, both have returned
C4_GoroutinesExit ==
    (cancelled /\ ~ENABLED GoroutineStep) => (tpc = "done" /\ epc = "done")

\* the per-CPU values of key k that were written after the eviction at last
Fresh(fl, k, last) ==
    {i \in 1..Len(fl[k]) : fl[k][i].start > last /\ fl[k][i].end > last}

RECURSIVE SumField(_, _, _)
SumField(ms, I, f) ==
    IF I = {} THEN 0
    ELSE LET i == CHOOSE x \in I : TRUE
         IN ms[i][f] + SumField(ms, I \ {i}, f)

RECURSIVE MaxField(_, _, _)
MaxField(ms, I, f) ==
    IF I = {} THEN 0
    ELSE LET i == CHOOSE x \in I : TRUE
         IN Max(ms[i][f], MaxField(ms, I \ {i}, f))

\* C5: every record an eviction emits is the accumulation of exactly the
\* per-CPU values of its key whose start and end are both later than the
\* lastEvictionNs the eviction found; a key with no such value emits no record;
\* so no emitted record ends at or before that lastEvictionNs
C5_FreshShardsOnly ==
    epc = "send" =>
        \A k \in Keys :
            LET I == Fresh(flows, k, prevEvictionNs)
                R == {r \in fwd : r.id = k}
            IN  IF I = {} THEN R = {}
                ELSE /\ Cardinality(R) = 1
                     /\ \A r \in R :
                           /\ r.metrics.packets = SumField(flows[k], I, "packets")
                           /\ r.metrics.bytes = SumField(flows[k], I, "bytes")
                           /\ r.metrics.end = MaxField(flows[k], I, "end")
                           /\ r.metrics.end > prevEvictionNs

\* an eviction that read, for one key, a value left over from before the last
\* eviction and a value written since
C5_Witness ==
    /\ epc = "send"
    /\ \E k \in Keys : \E i, j \in 1..Len(flows[k]) :
          /\ flows[k][i].packets > 0
          /\ flows[k][i].end <= prevEvictionNs
          /\ flows[k][j].start > prevEvictionNs
          /\ flows[k][j].end > prevEvictionNs

C7_EexistRetry ==
    [][/\ \A c \in CPUs :
            /\ (pc[c] = "insert" /\ pc'[c] = "relookup")
                 => (tbl[pkt[c].key] # 0 /\ UNCHANGED <<tbl, elems, ring, dropped>>)
            /\ (pc[c] = "relookup" /\ pc'[c] # "relookup")
                 => IF tbl[pkt[c].key] # 0
                    THEN /\ pc'[c] = "update"
                         /\ ptr'[c] = tbl[pkt[c].key]
                         /\ pkt'[c].path = "eexist"
                         /\ UNCHANGED <<tbl, elems, ring, dropped>>
                    ELSE /\ pc'[c] = "ret"
                         /\ dropped' = dropped + 1
                         /\ UNCHANGED <<tbl, elems, ring>>
            /\ (pc[c] = "update" /\ pkt[c].path = "eexist" /\ pc'[c] # "update")
                 => /\ pc'[c] = "ret"
                    /\ elems'[ptr[c]][c].packets = elems[ptr[c]][c].packets + 1
                    /\ elems'[ptr[c]][c].bytes = elems[ptr[c]][c].bytes + pkt[c].len
                    /\ elems'[ptr[c]][c].end = pkt[c].ts
                    /\ \A e \in Elems, c2 \in CPUs :
                          (e # ptr[c] \/ c2 # c) => elems'[e][c2] = elems[e][c2]
                    /\ UNCHANGED <<tbl, ring, dropped>>
       /\ dropped' # dropped
            => \E c \in CPUs : pc[c] = "relookup" /\ tbl[pkt[c].key] = 0]_vars

\* a packet whose insert returned -EEXIST has been added to the entry
C7_Witness ==
    \E c \in CPUs : pc[c] = "ret" /\ pkt[c].path = "eexist"

\* the record the classifier submits for the packet of CPU c
RingRecord(c) ==
    [id |-> pkt[c].key,
     metrics |-> [packets |-> 1, bytes |-> pkt[c].len, start |-> pkt[c].ts,
                  end |-> pkt[c].ts, flags |-> pkt[c].flags, errno |-> pkt[c].errno]]

\* C8, as the specification states it: when the insert fails with another
\* error than EEXIST, the map is unchanged and exactly one record is submitted
\* to the ring buffer, with packets = 1, bytes = len, start = end = now and
\* errno = -ret
C8_OverflowToRing ==
    [][\A c \in CPUs :
          (pc[c] = "reserve" /\ pc'[c] # "reserve")
             => /\ ring' = Append(ring, RingRecord(c))
                /\ pkt[c].errno \in {E2BIG, EBUSY}
                /\ UNCHANGED <<tbl, elems>>]_vars

\* C8, as the code has it: the record is submitted if the ring buffer has room
\* for it, and nothing is written otherwise; a key that finds the map full of
\* other keys takes this path, with E2BIG or EBUSY
C8_OverflowToRingIfRoom ==
    [][\A c \in CPUs :
          /\ (pc[c] = "insert" /\ pc'[c] = "reserve")
               => /\ pkt'[c].errno \in {E2BIG, EBUSY}
                  /\ pkt'[c].errno = E2BIG => (tbl[pkt[c].key] = 0 /\ FreeElems = {})
                  /\ UNCHANGED <<tbl, elems, ring>>
          /\ (pc[c] = "insert" /\ pc'[c] # "insert" /\ tbl[pkt[c].key] = 0 /\ FreeElems = {})
               => pc'[c] = "reserve"
          /\ (pc[c] = "reserve" /\ pc'[c] # "reserve")
               => /\ pc'[c] = "ret"
                  /\ pkt[c].errno \in {E2BIG, EBUSY}
                  /\ ring' = IF Len(ring) < RingCap THEN Append(ring, RingRecord(c)) ELSE ring
                  /\ UNCHANGED <<tbl, elems, dropped>>]_vars

\* the map holds one key and a packet of the other key has been submitted to
\* the ring buffer with E2BIG
C8_Witness ==
    /\ \E c \in CPUs : pc[c] = "ret" /\ pkt[c].path = "overflow"
    /\ Len(ring) = 1
    /\ ring[1].metrics.errno = E2BIG
    /\ ring[1].metrics.packets = 1
    /\ tbl[ring[1].id] = 0
    /\ \E k \in Keys : tbl[k] # 0

\* C9: when the insert fails and the ring buffer cannot reserve, the record is
\* dropped and HASHMAP_FLOWS_DROPPED is incremented
C9_ReserveFailureCounted ==
    [][\A c \in CPUs :
          (pc[c] = "reserve" /\ pc'[c] = "ret" /\ ring' = ring)
             => dropped' = dropped + 1]_vars

\* the verdicts that let the packet through
PassVerdicts == {TC_ACT_OK, TCX_NEXT}

\* C10: the classifier never drops traffic: on every path the entry points
\* return a pass-through verdict
C10_PassThrough ==
    \A c \in CPUs :
        pc[c] = "ret" =>
            \A hook \in Hooks :
                /\ EntryVerdict(hook, pkt[c].ret) \in PassVerdicts
                /\ EntryVerdict(hook, pkt[c].ret) # TC_ACT_SHOT

\* the classifier returns after the reserve failed
C10_Witness ==
    \E c \in CPUs : pc[c] = "ret" /\ pkt[c].path = "reserve_failed"
\* C18: the Accounter loses nothing: per key, the packets and bytes of the
\* records it received and has not handed to evict are those of its entry, so
\* that the evicted batches add up to the totals of the input records.
C18_AccounterLossless ==
    \A k \in Keys : /\ accOwed[k].packets = entries[k].packets
                    /\ accOwed[k].bytes = entries[k].bytes

Checked == heap[Head(records)]
CheckedEntry == Find(ifaces, NormKey(Checked.Id))

\* C11: in drop mode checkDupe forwards a record exactly when its normalised
\* key has no entry in the cache, and the record then becomes the first-seen
\* variant, or when its if_index is the one the entry holds; a record with
\* another if_index is not forwarded and the entry keeps its if_index.
C11_DropMode ==
    [][(DdCheck /\ ~justMark /\ ~mergeDup) =>
          LET p == Head(records)
              i == CheckedEntry
              first_seen == i = 0 \/ ifaces[i].ifIndex = Checked.Id.IfIndex
          IN  /\ dfwd' = IF first_seen THEN Append(dfwd, p) ELSE dfwd
              /\ ifaces'[1].key = NormKey(Checked.Id)
              /\ ifaces'[1].ifIndex = IF i = 0 THEN Checked.Id.IfIndex ELSE ifaces[i].ifIndex
              /\ heap' = heap]_vars

\* drop mode: of two records of one flow from two interfaces only the first went out
C11_Witness ==
    /\ ~justMark /\ ~mergeDup
    /\ dpc = "recv"
    /\ Len(heap) = 2
    /\ heap[1].Id.Tuple = heap[2].Id.Tuple
    /\ heap[1].Id.IfIndex # heap[2].Id.IfIndex
    /\ dout = <<1>>
\* the step in which Dedupe receives a batch and removes the expired entries
BatchReceived == dpc = "recv" /\ dpc' = "check"

\* the flows that have an entry in the cache
Cached(es) == {es[i].key.Tuple : i \in 1..Len(es)}

\* C12: a flow of which no record was checked for longer than the expiry time
\* has no entry left once the next batch has been received, and a record of a
\* flow without entry is forwarded, unmarked, and registers its own interface
\* as the first-seen one.
C12_ExpiredTakenOver ==
    [][/\ BatchReceived =>
             \A t \in Tuples :
                (lastSeen[t] # 0 /\ now > lastSeen[t] + DeduperFCExpiry) => t \notin Cached(ifaces')
       /\ (DdCheck /\ Checked.Id.Tuple \notin Cached(ifaces)) =>
             /\ dfwd' = Append(dfwd, Head(records))
             /\ ~heap'[Head(records)].Duplicate
             /\ ifaces'[1].key.Tuple = Checked.Id.Tuple
             /\ ifaces'[1].ifIndex = Checked.Id.IfIndex]_vars

\* drop mode: after the first interface's record, the record of the second
\* interface was forwarded too, which takes the expiry of the flow's entry
C12_Witness ==
    /\ ~justMark /\ ~mergeDup
    /\ dout = <<1, 2>>
    /\ heap[1].Id.Tuple = heap[2].Id.Tuple
    /\ heap[1].Id.IfIndex # heap[2].Id.IfIndex
    /\ ifaces[1].ifIndex = heap[2].Id.IfIndex
\* checkDupe is about to check a duplicate: a record whose key has an entry
\* that another interface registered
CheckedDuplicate ==
    /\ CheckedEntry # 0
    /\ ifaces[CheckedEntry].ifIndex # Checked.Id.IfIndex

\* the heap with one {interface -> direction} entry of the checked record
\* appended to the merge list of the first-seen record, nothing else changed
OneMergeEntry(h) ==
    LET q == ifaces[CheckedEntry].dupList
    IN  /\ q \in 1..Len(heap)
        /\ h[q].DupList = Append(heap[q].DupList,
                                  <<Interface(Checked.Id), Checked.Id.Direction>>)
        /\ \A o \in 1..Len(heap) : o # q => h[o].DupList = heap[o].DupList
        /\ \A o \in 1..Len(heap) : h[o].Id = heap[o].Id

\* C13 as stated: in merge mode a duplicate is never forwarded, whatever
\* justMark, and one entry is appended to the first-seen record's merge list.
C13_MergeNeverForwards ==
    [][(DdCheck /\ mergeDup /\ CheckedDuplicate) =>
          /\ dfwd' = dfwd
          /\ OneMergeEntry(heap')]_vars

\* C13: in merge mode a duplicate has exactly one {interface -> direction}
\* entry appended to the merge list of the first-seen record; it is not
\* forwarded when justMark is off, and it is forwarded with Duplicate set when
\* justMark is on.
C13_MergeForwardsIfMarking ==
    [][(DdCheck /\ mergeDup /\ CheckedDuplicate) =>
          /\ OneMergeEntry(heap')
          /\ dfwd' = IF justMark THEN Append(dfwd, Head(records)) ELSE dfwd
          /\ heap'[Head(records)].Duplicate = justMark]_vars

\* merge mode: the second interface's record was merged into the first one's
\* list and not forwarded
C13_Witness ==
    /\ mergeDup /\ ~justMark
    /\ dpc = "recv"
    /\ dout = <<1>>
    /\ Len(heap) = 2
    /\ Len(heap[1].DupList) = 2
    /\ heap[1].DupList[2] = <<Interface(heap[2].Id), heap[2].Id.Direction>>
\* C14: in mark mode every record of a batch is forwarded, in the order of
\* arrival, and checkDupe leaves a record with Duplicate set exactly when its
\* key had an entry in the cache that another if_index had registered.
C14_MarkMode ==
    /\ [](justMark /\ dpc = "recv" => dout = [i \in 1..Len(heap) |-> i])
    /\ [][(DdCheck /\ justMark) =>
              /\ dfwd' = Append(dfwd, Head(records))
              /\ heap'[Head(records)].Duplicate = CheckedDuplicate]_vars

\* mark mode: two records of one flow from two interfaces, both forwarded,
\* the second one marked
C14_Witness ==
    /\ justMark /\ ~mergeDup
    /\ dout = <<1, 2>>
    /\ heap[1].Id.Tuple = heap[2].Id.Tuple
    /\ ~heap[1].Duplicate
    /\ heap[2].Duplicate
\* C15: records that differ only in if_index, MAC addresses and direction
\* share one cache entry: the cache holds one entry per flow, and a record of a
\* flow that another if_index registered is recognised as a duplicate (it adds
\* no entry and is not forwarded as an unmarked record), whatever its MAC
\* addresses and direction.
C15_SameEntry ==
    /\ [](Cardinality(Cached(ifaces)) = Len(ifaces))
    /\ [][(/\ DdCheck
            /\ \E j \in 1..Len(ifaces) : /\ ifaces[j].key.Tuple = Checked.Id.Tuple
                                         /\ ifaces[j].ifIndex # Checked.Id.IfIndex) =>
              /\ Len(ifaces') = Len(ifaces)
              /\ \/ dfwd' = dfwd
                 \/ heap'[Head(records)].Duplicate]_vars

\* drop mode: the second record differs from the first in if_index, both MAC
\* addresses and direction, and was not forwarded
C15_Witness ==
    /\ ~justMark /\ ~mergeDup
    /\ dpc = "recv"
    /\ Len(heap) = 2
    /\ heap[1].Id.Tuple = heap[2].Id.Tuple
    /\ heap[1].Id.IfIndex # heap[2].Id.IfIndex
    /\ heap[1].Id.SrcMac # heap[2].Id.SrcMac
    /\ heap[1].Id.DstMac # heap[2].Id.DstMac
    /\ heap[1].Id.Direction # heap[2].Id.Direction
    /\ dout = <<1>>
    /\ Len(ifaces) = 1
\* C16: when the stream of batches has been fed to Dedupe a second time, the
\* second pass has forwarded the same records in the same order as the first,
\* and every record carries the Duplicate flag and the merge list that the
\* first pass left it with.
C16_Idempotent ==
    (pass = 2 /\ stream = <<>> /\ dpc = "recv") =>
        /\ dout = first.dout
        /\ heap = first.heap
\* C17: when Dedupe has received a batch and removed the expired entries, no
\* entry left in the cache has an expiry time earlier than now, and every
\* entry that went had one.
C17_ExpirationStep ==
    [][BatchReceived =>
          /\ \A j \in 1..Len(ifaces') : ~(ifaces'[j].expiryTime < now)
          /\ \A j \in 1..Len(ifaces) :
                (\A j2 \in 1..Len(ifaces') : ifaces'[j2] # ifaces[j])
                    => ifaces[j].expiryTime < now]_vars

\* a batch has just been received: the entry of one flow went, the entry of
\* another flow, checked later, stayed
C17_Witness ==
    /\ dpc = "check"
    /\ \E t \in Tuples : lastSeen[t] # 0 /\ t \notin Cached(ifaces)
    /\ \E j \in 1..Len(ifaces) : ifaces[j].expiryTime = now
RECURSIVE Expected(_)
\* the names whose last Added that passed the filter and, where the name was
\* not held, registered its tracer has not been followed by a Deleted
Expected(log) ==
    IF log = <<>> THEN {}
    ELSE LET before == Expected(SubSeq(log, 1, Len(log) - 1))
             e == log[Len(log)]
         IN  IF e.type = "Deleted" THEN before \ {e.name}
             ELSE IF e.name # "lo" /\ (e.name \in before \/ e.registers)
             THEN before \cup {e.name}
             ELSE before

\* C20: while the agent runs and its interfaces manager handles events, the registry holds
\* exactly the names that an accepted Added put there and no later Deleted
\* took away, and every name has one running tracer when it is registered and
\* none when it is not.
C20_Registry ==
    (ipc = "run" /\ ~cancelled) =>
        /\ tracers = Expected(handled)
        /\ \A n \in Names : traces[n] = IF n \in tracers THEN 1 ELSE 0

\* two interfaces registered, an Added repeated for the first and the second
\* deleted: one tracer runs, for the first
C20_Witness ==
    /\ ipc = "run" /\ ~cancelled
    /\ Len(handled) = 4
    /\ handled[1].type = "Added" /\ handled[1].name = "eth0"
    /\ handled[2].type = "Added" /\ handled[2].name = "br0"
    /\ handled[3].type = "Added" /\ handled[3].name = "eth0"
    /\ handled[4].type = "Deleted" /\ handled[4].name = "br0"
    /\ tracers = {"eth0"}
    /\ traces["eth0"] = 1 /\ traces["br0"] = 0

\* the step that handles an Added event for a name that passes the filter and
\* has no tracer yet
AddedUnregistered ==
    /\ Len(handled') = Len(handled) + 1
    /\ handled'[Len(handled')].type = "Added"
    /\ Allowed(handled'[Len(handled')].name)
    /\ handled'[Len(handled')].name \notin tracers

\* C21: when Register() fails for an added interface the registry and the
\* started tracers are left as they were and the manager keeps running; when
\* it succeeds, also after an earlier failure for the same name, the tracer
\* is stored and started
C21_AttachFailureSkips ==
    [][AddedUnregistered =>
          LET e == handled'[Len(handled')] IN
          /\ ipc' = "run"
          /\ IF e.registers
             THEN /\ tracers' = tracers \cup {e.name}
                  /\ traces' = [traces EXCEPT ![e.name] = @ + 1]
             ELSE /\ tracers' = tracers
                  /\ traces' = traces]_vars

\* an Added whose Register() failed, then an Added of the same name that
\* succeeded
C21_Witness ==
    /\ Len(handled) = 2
    /\ handled[1] = [type |-> "Added", name |-> "eth0", registers |-> FALSE]
    /\ handled[2] = [type |-> "Added", name |-> "eth0", registers |-> TRUE]
    /\ tracers = {"eth0"}
    /\ traces["eth0"] = 1
    /\ ipc = "run"


\* the events a step appended to the poller's output
Emitted == SubSeq(pevents', Len(pevents) + 1, Len(pevents'))

\* the set the poll before the last one returned ({} before the first poll)
PreviousSet == IF polled = <<>> THEN {} ELSE Range(polled[Len(polled)])

\* C22: a poll that returns S2 after a poll that returned S1 emits one Added
\* for each name of S2 \ S1, one Deleted for each name of S1 \ S2 and nothing
\* else; the first poll emits Added for every name and an unchanged set emits
\* nothing
C22_SetDifference ==
    [][Len(polled') = Len(polled) + 1 =>
          LET S1 == PreviousSet
              S2 == Range(polled'[Len(polled')])
          IN  /\ SubSeq(pevents', 1, Len(pevents)) = pevents
              /\ Len(Emitted) = Cardinality(S2 \ S1) + Cardinality(S1 \ S2)
              /\ \A n \in S2 \ S1 : [type |-> "Added", name |-> n] \in Range(Emitted)
              /\ \A n \in S1 \ S2 : [type |-> "Deleted", name |-> n] \in Range(Emitted)
              /\ polled = <<>> => Range(Emitted) = {[type |-> "Added", name |-> n] : n \in S2}
              /\ S1 = S2 => Emitted = <<>>]_vars

\* foo and bar, then foo and bae, then the same again: two Added, then one
\* Added and one Deleted, then nothing
C22_Witness ==
    /\ polled = << <<"foo", "bar">>, <<"foo", "bae">>, <<"foo", "bae">> >>
    /\ pevents = << [type |-> "Added", name |-> "foo"], [type |-> "Added", name |-> "bar"],
                    [type |-> "Added", name |-> "bae"], [type |-> "Deleted", name |-> "bar"] >>

\* whether the inputs handled so far leave a link tracked: its last update
\* said up, or it has had no update and was in the initial enumeration
TrackedByLog(link) ==
    LET at == {i \in 1..Len(wlinks) : wlinks[i].link = link}
    IN  IF at = {} THEN link \in Range(listed)
        ELSE wlinks[CHOOSE i \in at : \A j \in at : j <= i].up

\* what the forwarded events leave at an index: the name of the last Added for
\* the index, unless a Deleted of that name followed it
LastAdded(i) ==
    LET at == {j \in 1..Len(wout) : wout[j].type = "Added" /\ wout[j].link[2] = i}
    IN  IF at = {} THEN ""
        ELSE LET last == CHOOSE j \in at : \A k \in at : k <= j
             IN  IF \E k \in (last + 1)..Len(wout) :
                       wout[k] = [type |-> "Deleted", link |-> wout[last].link]
                 THEN ""
                 ELSE wout[last].link[1]

\* no index was announced for two names
NoIndexShared ==
    \A j, k \in 1..Len(wout) : wout[j].link[2] = wout[k].link[2] => wout[j].link = wout[k].link

\* the initial enumeration emits Added for each interface, in order
EnumerationAnnounced ==
    (wpc = "init" /\ wpc' = "run") => wch' = [i \in 1..Len(listed') |-> [type |-> "Added", link |-> listed'[i]]]

\* a link update emits Added when the link is up and was not tracked, Deleted
\* when it is down and was tracked, and nothing otherwise
UpdateAnnounced ==
    Len(wlinks') = Len(wlinks) + 1 =>
       LET u == wlinks'[Len(wlinks')]
       IN  wch' = IF u.up /\ ~TrackedByLog(u.link)
                  THEN Append(wch, [type |-> "Added", link |-> u.link])
                  ELSE IF ~u.up /\ TrackedByLog(u.link)
                  THEN Append(wch, [type |-> "Deleted", link |-> u.link])
                  ELSE wch

\* C23, as stated: the events follow the rule and, once every event emitted
\* was handled, the registry holds exactly the tracked links
C23_RegistryExact ==
    /\ [][EnumerationAnnounced /\ UpdateAnnounced]_vars
    /\ [](wch = <<>> => \A l \in Links : TrackedByLog(l) <=> regIfaces[l[2]] = l[1])

\* C23, amended: the events follow the rule; every index maps to the name of
\* the last Added for it unless a Deleted of that name followed; once every
\* event emitted was handled each registry entry is a tracked link, and the
\* registry holds exactly the tracked links when no index was shared
C23_RegistryOfLastAdded ==
    /\ [][EnumerationAnnounced /\ UpdateAnnounced]_vars
    /\ [](\A i \in LinkIndexes : regIfaces[i] = LastAdded(i))
    /\ [](wch = <<>> => \A i \in LinkIndexes : regIfaces[i] # "" => TrackedByLog(<<regIfaces[i], i>>))
    /\ [](wch = <<>> /\ NoIndexShared =>
             \A l \in Links : TrackedByLog(l) <=> regIfaces[l[2]] = l[1])

\* foo, bar and baz enumerated, bae up, bar down, every event handled
C23_Witness ==
    /\ listed = Extant
    /\ wlinks = << [link |-> <<"bae", 4>>, up |-> TRUE], [link |-> <<"bar", 2>>, up |-> FALSE] >>
    /\ wch = <<>>
    /\ wout = << [type |-> "Added", link |-> <<"foo", 1>>], [type |-> "Added", link |-> <<"bar", 2>>],
                 [type |-> "Added", link |-> <<"baz", 3>>], [type |-> "Added", link |-> <<"bae", 4>>],
                 [type |-> "Deleted", link |-> <<"bar", 2>>] >>
    /\ regIfaces = [i \in LinkIndexes |-> IF i = 1 THEN "foo" ELSE IF i = 3 THEN "baz" ELSE IF i = 4 THEN "bae" ELSE ""]


\* C24: an eviction whose batch finds the downstream channel full drops the
\* batch instead of blocking: the evictor is never at its send, holding
\* evictionCond.L, with the channel full
C24_NeverWaitsHoldingLock == ~(epc = "send" /\ locked /\ out >= OutCap)


\* the shards the aggregation is to count: written since the last eviction,
\* a start that was never set not counting against the shard
Counted(fl, k, last) ==
    {i \in 1..Len(fl[k]) : fl[k][i].end > last /\ (fl[k][i].start = 0 \/ fl[k][i].start > last)}

\* the smallest non-zero value of a field over the shards I (0: none)
RECURSIVE MinNonZeroField(_, _, _)
MinNonZeroField(ms, I, f) ==
    IF I = {} THEN 0
    ELSE LET i == CHOOSE x \in I : TRUE
             rest == MinNonZeroField(ms, I \ {i}, f)
         IN  IF ms[i][f] = 0 THEN rest
             ELSE IF rest = 0 THEN ms[i][f]
             ELSE Min(ms[i][f], rest)

\* C25: the record of a key sums packets and bytes over its shards, a shard
\* whose start is 0 included, takes the largest end and the smallest non-zero
\* start: (3, start 0, end 1000) and (2, start 900, end 1100) give
\* packets 5, start 900, end 1100
C25_ZeroStartShardCounted ==
    epc = "send" =>
        \A k \in Keys :
            LET I == Counted(flows, k, prevEvictionNs)
                R == {r \in fwd : r.id = k}
            IN  I # {} =>
                   /\ Cardinality(R) = 1
                   /\ \A r \in R :
                         /\ r.metrics.packets = SumField(flows[k], I, "packets")
                         /\ r.metrics.bytes = SumField(flows[k], I, "bytes")
                         /\ r.metrics.start = MinNonZeroField(flows[k], I, "start")
                         /\ r.metrics.end = MaxField(flows[k], I, "end")


RECURSIVE OrField(_, _)
OrField(ms, I) ==
    IF I = {} THEN 0
    ELSE LET i == CHOOSE x \in I : TRUE
         IN  BitOr(ms[i].flags, OrField(ms, I \ {i}))

\* what the table holds for an element, its per-CPU slots taken together
Entry(el, e) ==
    [packets |-> SumField(el[e], CPUs, "packets"),
     bytes |-> SumField(el[e], CPUs, "bytes"),
     start |-> MinNonZeroField(el[e], CPUs, "start"),
     end |-> MaxField(el[e], CPUs, "end"),
     flags |-> OrField(el[e], CPUs)]

\* the packets and bytes of every entry of the table
RECURSIVE TableSum(_, _)
TableSum(K, f) ==
    IF K = {} THEN 0
    ELSE LET k == CHOOSE x \in K : TRUE
         IN  (IF tbl[k] = 0 THEN 0 ELSE Entry(elems, tbl[k])[f]) + TableSum(K \ {k}, f)

\* the step of a CPU that inserts the entry of a key
Inserts(c) == pc[c] = "insert" /\ pc'[c] = "ret"

\* the step of a CPU that updates the entry it found
Updates(c) == pc[c] = "update" /\ pc'[c] = "ret"

C28_FlagsMonotonic ==
    [][/\ \A k \in Keys :
             (tbl[k] # 0 /\ tbl'[k] = tbl[k]) =>
                /\ \A c \in CPUs :
                      FlagBits(elems[tbl[k]][c].flags) \subseteq FlagBits(elems'[tbl[k]][c].flags)
                /\ FlagBits(Entry(elems, tbl[k]).flags) \subseteq FlagBits(Entry(elems', tbl[k]).flags)
       /\ \A c \in CPUs :
             Updates(c) =>
                FlagBits(elems'[ptr[c]][c].flags) =
                   FlagBits(elems[ptr[c]][c].flags) \cup FlagBits(pkt[c].flags)]_vars

\* a SYN packet, then a FIN packet of the same key from the same CPU: the hit
\* path has returned and the slot holds both bits
C28_Witness ==
    \E c \in CPUs, k \in Keys :
        /\ pc[c] = "ret"
        /\ pkt[c].path = "hit"
        /\ tbl[k] # 0
        /\ elems[tbl[k]][c].packets = 2
        /\ elems[tbl[k]][c].flags = SYN_FLAG + FIN_FLAG


SampledOut(c) == pc[c] = "idle" /\ pc'[c] = "ret" /\ pkt'[c].path = "sampled_out"

\* C30, as stated: a packet rejected by the sampling gate leaves the flow
\* table, the ring buffer, every counter and every program global as they were
C30_RejectionWritesNothing ==
    [][\A c \in CPUs :
          SampledOut(c) => UNCHANGED <<tbl, elems, ring, dropped, stats, now, do_sampling>>]_vars

\* C30, amended: a packet rejected by the sampling gate returns TC_ACT_OK and
\* leaves the flow table, the ring buffer and every counter as they were; the
\* one thing written is the program global do_sampling, which is set to 0
C30_RejectionWritesDoSampling ==
    [][\A c \in CPUs :
          SampledOut(c) =>
             /\ UNCHANGED <<tbl, elems, ring, dropped, stats, now, ptr>>
             /\ do_sampling' = 0
             /\ pkt'[c].ret = TC_ACT_OK]_vars

\* a packet is rejected after another one was admitted and inserted
C30_Witness ==
    \E c \in CPUs, k \in Keys :
        /\ pc[c] = "ret"
        /\ pkt[c].path = "sampled_out"
        /\ do_sampling = 0
        /\ tbl[k] # 0
        /\ stats.owedP = 1


\* C31: when Close has returned, it has attempted the deletion of every egress
\* filter, ingress filter and qdisc that was recorded, whatever failed before;
\* it returned an error exactly when closing something failed or a deletion
\* failed with an error other than ENODEV; and the three registries are empty
C31_CloseDeletesAll ==
    fpc = "closed" =>
       /\ \A i \in recorded.egress : \E a \in attempts : a.step = "egress" /\ a.iface = i
       /\ \A i \in recorded.ingress : \E a \in attempts : a.step = "ingress" /\ a.iface = i
       /\ \A i \in recorded.qdiscs : \E a \in attempts : a.step = "qdisc" /\ a.iface = i
       /\ closeRet = "errors" <=>
             \/ \E e \in errs : e.step \in CloseNames
             \/ \E a \in attempts : a.result \notin {"nil", "ENODEV"}
       /\ closeRet \in {"nil", "errors"}
       /\ egressFilters = {} /\ ingressFilters = {} /\ qdiscs = {}

\* Close returned nil although the deletion of eth0's egress filter met ENODEV,
\* and went on to delete the ingress filter and the qdisc
C31_Witness ==
    /\ fpc = "closed"
    /\ closeRet = "nil"
    /\ recorded = [egress |-> {"eth0"}, ingress |-> {"eth0"}, qdiscs |-> {"eth0", "br0"}]
    /\ [step |-> "egress", iface |-> "eth0", result |-> "ENODEV"] \in attempts
    /\ [step |-> "ingress", iface |-> "eth0", result |-> "nil"] \in attempts
    /\ [step |-> "qdisc", iface |-> "br0", result |-> "ENODEV"] \in attempts


\* C32: once the context is cancelled the reader loop exits in the end, the
\* blocked Read being ended by the Close of the reader; and a read or a
\* decoding that fails with another error than 'closed' leaves the loop at its
\* select, from where the next record is read
C32_ReaderExitsErrorsContinue ==
    /\ cancelled ~> (rpc = "done")
    /\ [][readErrs' # readErrs => rpc' = "read"]_vars
    /\ [][(rpc = "reading" /\ rpc' = "done") => rbClosed]_vars

\* a record was read after two failures, and later the reader, blocked in Read
\* on an empty ring buffer, was ended by the Close
C32_Witness ==
    /\ rpc = "done"
    /\ rbClosed
    /\ readErrs = MaxReadErrs
    /\ ring = <<>>
    /\ \E k \in Keys : entries[k] # ZeroMetrics


\* the frame ends before the end of its Ethernet header, or of its IPv4 or
\* IPv6 header
L3Truncated(f) ==
    \/ f.caplen < SizeofEthhdr
    \/ f.h_proto = Wire16(ETH_P_IP) /\ f.caplen < SizeofEthhdr + SizeofIphdr
    \/ f.h_proto = Wire16(ETH_P_IPV6) /\ f.caplen < SizeofEthhdr + SizeofIpv6hdr

\* the frame holds its IP header and is a TCP or UDP packet that ends before
\* the end of its TCP or UDP header
L4Truncated(f) ==
    /\ ~L3Truncated(f)
    /\ f.h_proto \in {Wire16(ETH_P_IP), Wire16(ETH_P_IPV6)}
    /\ LET l4 == SizeofEthhdr + (IF f.h_proto = Wire16(ETH_P_IP) THEN SizeofIphdr ELSE SizeofIpv6hdr)
       IN  \/ f.protocol = IPPROTO_TCP /\ f.caplen < l4 + SizeofTcphdr
           \/ f.protocol = IPPROTO_UDP /\ f.caplen < l4 + SizeofUdphdr

\* CPU c takes a frame through the sampling gate and the parser
Parses(c) == pc[c] = "idle" /\ pc'[c] # "idle" /\ pkt'[c].path # "sampled_out"

\* C33, as the specification states it: the parser discards the frame
\* whenever the Ethernet header, the IP header or the TCP/UDP header of a
\* TCP/UDP packet does not fit, and a discarded frame leaves the flow table
\* and the ring buffer as they were
C33_DiscardOnAnyTruncation ==
    [][\A c \in CPUs :
          /\ Parses(c) =>
                /\ (L3Truncated(frame'[c]) \/ L4Truncated(frame'[c])) => pkt'[c].path = "discard"
                /\ pkt'[c].path = "discard" => (tbl' = tbl /\ elems' = elems /\ ring' = ring)
          /\ (pc[c] = "ret" /\ pkt[c].path = "discard" /\ pc'[c] # "ret")
                => (tbl' = tbl /\ elems' = elems /\ ring' = ring)]_vars

\* C33: the parser discards the frame exactly when the Ethernet header or the
\* IP header does not fit; a TCP or UDP packet whose TCP or UDP header does not
\* fit is not discarded, it goes on with its ports zero; and a discarded frame
\* leaves the flow table and the ring buffer as they were
C33_DiscardOnL3Truncation ==
    [][\A c \in CPUs :
          /\ Parses(c) =>
                /\ L3Truncated(frame'[c]) <=> pkt'[c].path = "discard"
                /\ pkt'[c].path = "discard" => (tbl' = tbl /\ elems' = elems /\ ring' = ring)
                /\ (L4Truncated(frame'[c]) /\ pc'[c] = "lookup")
                      => (idOf'[pkt'[c].key].src_port = 0 /\ idOf'[pkt'[c].key].dst_port = 0)
          /\ (pc[c] = "ret" /\ pkt[c].path = "discard" /\ pc'[c] # "ret")
                => (tbl' = tbl /\ elems' = elems /\ ring' = ring)]_vars

\* an IPv4 frame that ends one byte before the end of its IP header has been
\* discarded while the flow table holds the flow of an earlier frame
C33_Witness ==
    \E c \in CPUs :
       /\ pc[c] = "ret"
       /\ pkt[c].path = "discard"
       /\ frame[c].h_proto = Wire16(ETH_P_IP)
       /\ frame[c].caplen = SizeofEthhdr + SizeofIphdr - 1
       /\ \E k \in Keys : tbl[k] # 0

\* C34: the flow_id of an admitted IPv4 packet has both addresses made of the
\* ::ffff/96 prefix and the four bytes of the IPv4 address, which decoding
\* recovers; a packet that is neither TCP nor UDP has its ports zero; and a
\* frame of another ethertype is admitted with addresses, protocol and ports zero
C34_KeyEncoding ==
    \A c \in CPUs :
       pc[c] \in {"lookup", "update", "insert", "relookup", "reserve"} =>
          LET f == frame[c]
              id == idOf[pkt[c].key]
          IN  /\ f.h_proto = Wire16(ETH_P_IP) =>
                    /\ SubSeq(id.src_ip, 1, 12) = <<0, 0, 0, 0, 0, 0, 0, 0, 0, 0, 255, 255>>
                    /\ SubSeq(id.dst_ip, 1, 12) = <<0, 0, 0, 0, 0, 0, 0, 0, 0, 0, 255, 255>>
                    /\ To4(id.src_ip) = f.saddr
                    /\ To4(id.dst_ip) = f.daddr
              /\ f.protocol \notin {IPPROTO_TCP, IPPROTO_UDP} =>
                    (id.src_port = 0 /\ id.dst_port = 0)
              /\ f.h_proto \notin {Wire16(ETH_P_IP), Wire16(ETH_P_IPV6)} =>
                    /\ id.src_ip = ZeroAddr /\ id.dst_ip = ZeroAddr
                    /\ id.transport_protocol = 0
                    /\ id.src_port = 0 /\ id.dst_port = 0

\* a packet from 6.7.8.9 is in the flow table under ::ffff:6.7.8.9, and a
\* frame of another ethertype has been admitted too
C34_Witness ==
    /\ \E k \in Keys : tbl[k] # 0 /\ To4(idOf[k].src_ip) = <<6, 7, 8, 9>>
    /\ \E c \in CPUs : pc[c] = "lookup" /\ frame[c].h_proto = Wire16(ETH_P_IP + 6)
                          /\ idOf[pkt[c].key].src_ip = ZeroAddr


\* C35: last_eviction_ns never decreases from one eviction cycle to the next,
\* a cycle that finds the table empty or discards every shard included
C35_LastEvictionMonotonic ==
    [][lastEvictionNs' >= lastEvictionNs]_vars


\* C36: in drop mode, a record of the flow that comes from another interface
\* than the first-seen one, when the first-seen interface has been silent for
\* longer than the expiry time, is forwarded
C36_OtherInterfaceTakesOver ==
    [][\A a \in IfIndexes, b \in IfIndexes :
          (/\ ~justMark
           /\ a # b
           /\ ifaces # <<>> /\ ifaces[1].ifIndex = a
           /\ heard[a] + DeduperFCExpiry < now
           /\ Len(heap') = Len(heap) + 1 /\ heap'[Len(heap')].Id.IfIndex = b)
          => Len(dout') = Len(dout) + 1]_vars


\* C37: no send on the output channel happens once Account has returned on
\* the close of its input channel
C37_NoSendAfterReturn ==
    [][apc = "done" => out' <= out]_vars

\* C38: no Trace goroutine sends on the records channel after the goroutine
\* of interfacesManager has closed it
C38_NoSendOnClosed == ~sentClosed

\* C39: when the loop of the ring buffer reader has exited while the accounter
\* still holds flows in its cache, the input channel of the accounter is closed
C39_ReaderExitClosesInput ==
    (rpc = "done" /\ \E k \in Keys : entries[k] # ZeroMetrics) => inClosed

\* the packets of key k in the last batch of Account
FinalPackets(k) ==
    IF \E r \in finalBatch : r.id = k
    THEN (CHOOSE r \in finalBatch : r.id = k).metrics.packets
    ELSE 0

\* C40: Account returns on the close of its input channel only by the send of
\* its last batch, made in its own goroutine, and that batch holds every entry
\* still cached, with the packets the cache holds for it
C40_FinalBatchOnClose ==
    /\ [](apc = "done" => /\ \A k \in Keys : FinalPackets(k) = entries[k].packets
                          /\ Cardinality(finalBatch) = Cardinality(EntryKeys))
    /\ [][(apc # "done" /\ apc' = "done")
             => (apc = "final" /\ out' = out + 1 /\ evicting' = evicting)]_vars

\* Account has returned after a last batch that holds a record
C40_Witness ==
    /\ apc = "done"
    /\ \E k \in Keys : FinalPackets(k) > 0

====
